---- MODULE Spec2Model ----
(***************************************************************************)
(* TopicTreeInterface (src/script.js): the local aggregation pipeline      *)
(* (processTreeLocally, generateInsights, the topic-name cache), the       *)
(* pairwise delta engine (generateDeltaAnalysis) and the multi-version     *)
(* query execution (executeQuery / executeMultiVersionQuery).              *)
(*                                                                         *)
(* Encoding of JavaScript values                                           *)
(*   - an object is a record; a property the object does not have is a     *)
(*     field missing from its DOMAIN (reading it gives undefined);         *)
(*   - a user id is <<"number", n>> or <<"string", n>> (the string whose   *)
(*     text is the decimal numeral n): 1 and "1" are different Map keys    *)
(*     and different under ===, and parseInt maps both to n;               *)
(*   - a Map is the sequence of its <<key, value>> entries in insertion    *)
(*     order, the order Map.prototype.forEach visits them;                 *)
(*   - tree.messages is the sequence Object.values(tree.messages) yields;  *)
(*   - text built by a template literal is the string itself.              *)
(* metadata.timestamp (new Date()) is wall-clock time and is left out.     *)
(***************************************************************************)
EXTENDS Integers, Sequences, FiniteSets, TLC

VARIABLES
    topicNames,   \* this.topicNames: the session's topic-name cache
    theTree,      \* SpecProc: the tree under study
    theQuery,     \* SpecProc: the query under study
    call,         \* SpecProc: arguments of the last processTreeLocally call
    result,       \* SpecProc: value the last processTreeLocally call returned
    first,        \* SpecProc: value returned by the first call on (theTree, theQuery)
    deltaIn,      \* SpecDelta: the two versions' trees and their results
    deltaOut,     \* SpecDelta: outcome of generateDeltaAnalysis
    selectedChannel,    \* this.selectedChannel
    selectedVersions,   \* this.selectedVersions: the three version selects
    availableVersions,  \* this.availableVersions
    availableUsers,     \* this.availableUsers
    resultsCache,       \* this.resultsCache: one slot per version column
    executeBtnDisabled, \* the execute button's disabled property
    loads,              \* handleDatasetChange calls, in the order they started
    selects,            \* number of changes of a version select so far
    runs,               \* executeQuery calls, in the order they started
    cacheOwner,         \* for each resultsCache slot, the run that wrote it
    shown,              \* what the results section shows, and the run that put it there
    openaiApiKey,       \* this.openaiApiKey
    twinTree,           \* SpecEnhance: a second tree, for comparing requests
    enh,                \* SpecEnhance: the last executeQueryAgainstVersion call
    processed,          \* SpecCache: the session's events so far, oldest first
    comparisonEnabled,  \* this.comparisonEnabled
    firstVersion,       \* this.firstVersion
    secondVersion,      \* this.secondVersion
    firstResultsTemp,   \* this.firstResultsTemp
    fetches,            \* SpecCompare: the two promises of executeComparisonQuery
    comparisonView      \* SpecCompare: what displayQueryResults has put on the page

procVars  == <<theTree, theQuery, call, result, first>>
deltaVars == <<deltaIn, deltaOut>>
formVars  == <<selectedChannel, selectedVersions, availableVersions, availableUsers,
               executeBtnDisabled, loads, selects>>
execVars  == <<resultsCache, runs, cacheOwner, shown>>
cmpVars   == <<comparisonEnabled, firstVersion, secondVersion, firstResultsTemp,
               fetches, comparisonView>>
sessVars  == <<openaiApiKey, twinTree, enh, processed, cmpVars>>

vars == <<topicNames, procVars, deltaVars, formVars, execVars, sessVars>>

\* ------------------------------------------------------------------ bounds
MaxMsgs == 3
MaxDeltaMsgs == 3
MaxRuns == 2
MaxLoads == 1
MaxSelects == 2

\* -------------------------------------------------------------- JS values
Num(n) == <<"number", n>>
Str(n) == <<"string", n>>

\* parseInt of a number or of a decimal numeral
ParseInt(v) == v[2]

\* ToBoolean: 0 is falsy, a non-empty string is truthy
Truthy(v) == v[1] = "string" \/ v[2] # 0

Has(obj, f) == f \in DOMAIN obj

None == [none |-> TRUE]

\* ---------------------------------------------------------------- JS Map
MapHas(m, k) == \E i \in 1..Len(m) : m[i][1] = k

MapGet(m, k) == m[CHOOSE i \in 1..Len(m) : m[i][1] = k][2]

MapSet(m, k, v) ==
    IF MapHas(m, k)
    THEN [i \in 1..Len(m) |-> IF m[i][1] = k THEN <<k, v>> ELSE m[i]]
    ELSE Append(m, <<k, v>>)

MapGetOr(m, k, d) == IF MapHas(m, k) THEN MapGet(m, k) ELSE d

RECURSIVE SumSeq(_)
SumSeq(s) == IF s = <<>> THEN 0 ELSE Head(s) + SumSeq(Tail(s))

\* Math.round(a / b) for a >= 0, b > 0: halves round up
RoundDiv(a, b) == (2 * a + b) \div (2 * b)

\* `${Math.round(a / b)}` for a, b >= 0: n/0 is Infinity and 0/0 is NaN
RoundDivText(a, b) ==
    IF b = 0 THEN (IF a = 0 THEN "NaN" ELSE "Infinity")
    ELSE ToString(RoundDiv(a, b))

\* ------------------------------------------------------ topic-name cache
\* the cache is a function from integer topic ids to names
FallbackIds == 0..9

fallbackNames ==
    [i \in FallbackIds |->
        CASE i = 0 -> "General Discussion"
          [] i = 1 -> "Technical Implementation"
          [] i = 2 -> "Community Governance"
          [] i = 3 -> "Market Analysis"
          [] i = 4 -> "Product Features"
          [] i = 5 -> "DeFi Protocols"
          [] i = 6 -> "Security & Audits"
          [] i = 7 -> "Token Economics"
          [] i = 8 -> "Development Updates"
          [] OTHER -> "User Support"]

\* a resolution that reads the fallback table before the cache
getTopicNameFallbackFirst(names, topicId) ==
    IF topicId \in FallbackIds THEN fallbackNames[topicId]
    ELSE IF topicId \in DOMAIN names THEN names[topicId]
    ELSE "Topic " \o ToString(topicId)

getTopicName(names, topicId) ==
    IF topicId \in DOMAIN names THEN names[topicId]
    ELSE IF topicId \in FallbackIds THEN fallbackNames[topicId]
    ELSE "Topic " \o ToString(topicId)

\* tree.topics, when present, is a function from topic ids to objects that
\* may have a name and may have a title
extractTopicNames(treeData, names) ==
    IF ~Has(treeData, "topics") THEN names
    ELSE LET tp == treeData.topics
             named == {t \in DOMAIN tp : Has(tp[t], "name") \/ Has(tp[t], "title")}
         IN  [t \in DOMAIN names \cup named |->
                 IF t \in named
                 THEN (IF Has(tp[t], "name") THEN tp[t].name ELSE tp[t].title)
                 ELSE names[t]]

\* ------------------------------------------------------- processTreeLocally
\* userIds.includes(message.fromUserId) after userIds = users.map(parseInt):
\* SameValueZero against numbers, so only a number-typed id can match
filterMessages(messages, selectedUsers) ==
    IF Len(selectedUsers) > 0
    THEN LET userIds == {ParseInt(selectedUsers[i]) : i \in 1..Len(selectedUsers)}
         IN  SelectSeq(messages, LAMBDA m :
                 /\ Has(m, "fromUserId")
                 /\ m.fromUserId[1] = "number"
                 /\ m.fromUserId[2] \in userIds)
    ELSE messages

\* message.fromUserId && message.fromUserName
hasUserAndName(m) ==
    /\ Has(m, "fromUserId") /\ Truthy(m.fromUserId)
    /\ Has(m, "fromUserName")

\* message.topicId !== undefined && message.topicId !== -1
hasTopic(m) == Has(m, "topicId") /\ m.topicId # -1

\* first forEach: users, userMessageCounts, userTopics
RECURSIVE extractUsers(_, _, _)
extractUsers(messages, i, acc) ==
    IF i > Len(messages) THEN acc
    ELSE LET m == messages[i]
         IN  IF ~hasUserAndName(m) THEN extractUsers(messages, i + 1, acc)
             ELSE LET u == m.fromUserId
                  IN  extractUsers(messages, i + 1,
                        [users |-> MapSet(acc.users, u, m.fromUserName),
                         userMessageCounts |->
                             MapSet(acc.userMessageCounts, u,
                                    MapGetOr(acc.userMessageCounts, u, 0) + 1),
                         userTopics |->
                             IF hasTopic(m)
                             THEN MapSet(acc.userTopics, u,
                                      MapGetOr(acc.userTopics, u, {}) \cup {m.topicId})
                             ELSE acc.userTopics])

\* second forEach: topicMessageCounts, topicUsers
RECURSIVE analyzeTopics(_, _, _)
analyzeTopics(messages, i, acc) ==
    IF i > Len(messages) THEN acc
    ELSE LET m == messages[i]
         IN  IF ~hasTopic(m) THEN analyzeTopics(messages, i + 1, acc)
             ELSE LET t == m.topicId
                      um == MapGetOr(acc.topicUsers, t, <<>>)
                  IN  analyzeTopics(messages, i + 1,
                        [topicMessageCounts |->
                             MapSet(acc.topicMessageCounts, t,
                                    MapGetOr(acc.topicMessageCounts, t, 0) + 1),
                         topicUsers |->
                             MapSet(acc.topicUsers, t,
                                 IF Has(m, "fromUserId") /\ Truthy(m.fromUserId)
                                 THEN MapSet(um, m.fromUserId,
                                             MapGetOr(um, m.fromUserId, 0) + 1)
                                 ELSE um)])

\* a sort that is not stable: x goes in front of the elements it ties with
RECURSIVE insertUnstable(_, _)
insertUnstable(s, x) ==
    IF s = <<>> THEN <<x>>
    ELSE IF Head(s).messageCount > x.messageCount
         THEN <<Head(s)>> \o insertUnstable(Tail(s), x)
         ELSE <<x>> \o s

\* Array.prototype.sort((a, b) => b.messageCount - a.messageCount): a stable
\* sort, descending; x goes behind every element that does not sort after it
RECURSIVE insertByMessageCount(_, _)
insertByMessageCount(s, x) ==
    IF s = <<>> THEN <<x>>
    ELSE IF Head(s).messageCount >= x.messageCount
         THEN <<Head(s)>> \o insertByMessageCount(Tail(s), x)
         ELSE <<x>> \o s

RECURSIVE sortByMessageCount(_)
sortByMessageCount(s) ==
    IF s = <<>> THEN <<>>
    ELSE insertByMessageCount(sortByMessageCount(SubSeq(s, 1, Len(s) - 1)), s[Len(s)])

\* the contributors of one topic, from its topicUsers entry
buildContributors(topicUserMap, users) ==
    sortByMessageCount(
        [j \in 1..Len(topicUserMap) |->
            LET userId == topicUserMap[j][1]
                key    == Num(ParseInt(userId))
            IN  [userId       |-> ParseInt(userId),
                 username     |-> "@" \o (IF MapHas(users, key) THEN MapGet(users, key)
                                          ELSE "User " \o ToString(userId[2])),
                 messageCount |-> topicUserMap[j][2]]])

buildTopicsData(topicMessageCounts, topicUsers, users, names) ==
    sortByMessageCount(
        [j \in 1..Len(topicMessageCounts) |->
            LET topicId      == topicMessageCounts[j][1]
                contributors == buildContributors(MapGetOr(topicUsers, topicId, <<>>), users)
            IN  [id               |-> topicId,
                 name             |-> getTopicName(names, topicId),
                 messageCount     |-> topicMessageCounts[j][2],
                 contributorCount |-> Len(contributors),
                 contributors     |-> contributors]])

\* ---------------------------------------------------------- generateInsights
\* an insight is <<template, value, ...>>: the template literal's text and
\* the text of each interpolated value, in order
countTopicsOf(topicsData, userId) ==
    Cardinality({j \in 1..Len(topicsData) :
        \E c \in 1..Len(topicsData[j].contributors) :
            topicsData[j].contributors[c].userId = userId})

\* topic.contributors.find(c => c.userId === userId): the first match
messagesOfIn(topic, userId) ==
    LET hits == {c \in 1..Len(topic.contributors) : topic.contributors[c].userId = userId}
    IN  IF hits = {} THEN 0
        ELSE topic.contributors[CHOOSE c \in hits : \A d \in hits : c <= d].messageCount

baseInsights(messages, topicsData, users) ==
    LET topTopic == topicsData[1]
    IN  << <<"Most discussed: \"{}\" with {} messages from {} contributors",
             topTopic.name, ToString(topTopic.messageCount),
             ToString(topTopic.contributorCount)>>,
           <<"{} distinct topics identified across all conversations",
             ToString(Len(topicsData))>>,
           <<"{} users actively participating with an average of {} messages each",
             ToString(Len(users)), RoundDivText(Len(messages), Len(users))>>,
           <<"Topic engagement: Average {} messages per topic",
             RoundDivText(Len(messages), Len(topicsData))>> >>
        \o (IF Len(topTopic.contributors) > 0
            THEN LET topContributor == topTopic.contributors[1]
                 IN  << <<"Most active contributor: {} ({} messages across {} topics)",
                          topContributor.username,
                          ToString(SumSeq([j \in 1..Len(topicsData) |->
                              messagesOfIn(topicsData[j], topContributor.userId)])),
                          ToString(countTopicsOf(topicsData, topContributor.userId))>> >>
            ELSE <<>>)

\* ------------------------------------------------------------ JS strings
\* String.prototype.includes
includes(s, t) ==
    \E i \in 1..(Len(s) - Len(t) + 1) : SubSeq(s, i, i + Len(t) - 1) = t

UpperCase == "ABCDEFGHIJKLMNOPQRSTUVWXYZ"
LowerCase == "abcdefghijklmnopqrstuvwxyz"

\* the lowercase letter of each uppercase letter
lowerOf ==
    [c \in {SubSeq(UpperCase, i, i) : i \in 1..26} |->
        LET i == CHOOSE j \in 1..26 : SubSeq(UpperCase, j, j) = c
        IN  SubSeq(LowerCase, i, i)]

lowerChar(c) == IF c \in DOMAIN lowerOf THEN lowerOf[c] ELSE c

\* String.prototype.toLowerCase on ASCII text
RECURSIVE toLowerCase(_)
toLowerCase(s) ==
    IF s = "" THEN ""
    ELSE lowerChar(SubSeq(s, 1, 1)) \o toLowerCase(SubSeq(s, 2, Len(s)))

\* Array.prototype.sort((a, b) => b[1] - a[1]) on <<key, count>> entries:
\* stable, descending by count
RECURSIVE insertByCount(_, _)
insertByCount(s, x) ==
    IF s = <<>> THEN <<x>>
    ELSE IF Head(s)[2] >= x[2]
         THEN <<Head(s)>> \o insertByCount(Tail(s), x)
         ELSE <<x>> \o s

RECURSIVE sortByCount(_)
sortByCount(s) ==
    IF s = <<>> THEN <<>>
    ELSE insertByCount(sortByCount(SubSeq(s, 1, Len(s) - 1)), s[Len(s)])

\* ------------------------------------------------ custom-query analyzers
\* a match of the usernames as they are written, without toLowerCase
mentionedCaseSensitive(users, question) ==
    SelectSeq([j \in 1..Len(users) |-> users[j][2]],
              LAMBDA username :
                  \/ includes(question, username)
                  \/ includes(question, "@" \o username)
                  \/ includes(question, "@@" \o username))

\* usernames.filter(...): the known usernames the question mentions, in the
\* order of the users Map
mentionedUsersOf(users, question) ==
    SelectSeq([j \in 1..Len(users) |-> users[j][2]],
              LAMBDA username :
                  LET lowerUsername == toLowerCase(username)
                  IN  \/ includes(question, lowerUsername)
                      \/ includes(question, "@" \o lowerUsername)
                      \/ includes(question, "@@" \o lowerUsername))

\* userTopicMap: for each fromUserName, a Map from topic id to message count
RECURSIVE buildUserTopicMap(_, _, _)
buildUserTopicMap(messages, i, acc) ==
    IF i > Len(messages) THEN acc
    ELSE LET m == messages[i]
         IN  IF ~(Has(m, "fromUserName") /\ m.fromUserName # "" /\ hasTopic(m))
             THEN buildUserTopicMap(messages, i + 1, acc)
             ELSE LET userTopics == MapGetOr(acc, m.fromUserName, <<>>)
                  IN  buildUserTopicMap(messages, i + 1,
                        MapSet(acc, m.fromUserName,
                               MapSet(userTopics, m.topicId,
                                      MapGetOr(userTopics, m.topicId, 0) + 1)))

absDiff(a, b) == IF a >= b THEN a - b ELSE b - a

analyzeUserDisagreements(messages, topicsData, users, question, names) ==
    LET mentionedUsers == mentionedUsersOf(users, question)
    IN  IF Len(mentionedUsers) >= 2
        THEN LET userTopicMap == buildUserTopicMap(messages, 1, <<>>)
                 user1Topics  == MapGetOr(userTopicMap, mentionedUsers[1], <<>>)
                 user2Topics  == MapGetOr(userTopicMap, mentionedUsers[2], <<>>)
                 shared == SelectSeq(user1Topics, LAMBDA e : MapHas(user2Topics, e[1]))
                 commonTopics ==
                     [j \in 1..Len(shared) |->
                         [topicId       |-> shared[j][1],
                          name          |-> getTopicName(names, shared[j][1]),
                          user1Messages |-> shared[j][2],
                          user2Messages |-> MapGet(user2Topics, shared[j][1]),
                          difference    |-> absDiff(shared[j][2],
                                                    MapGet(user2Topics, shared[j][1]))]]
                 significantDifferences ==
                     SelectSeq(commonTopics, LAMBDA t : t.difference > 2)
                 user1Focus == sortByCount(user1Topics)
                 user2Focus == sortByCount(user2Topics)
             IN  IF Len(commonTopics) > 0
                 THEN << <<"Users {} and {} both discussed {} common topics",
                          mentionedUsers[1], mentionedUsers[2],
                          ToString(Len(commonTopics))>> >>
                      \o (IF Len(significantDifferences) > 0
                          THEN LET topDifference == significantDifferences[1]
                               IN  << <<"Biggest engagement difference in \"{}\": {} ({} msgs) vs {} ({} msgs)",
                                        topDifference.name,
                                        mentionedUsers[1],
                                        ToString(topDifference.user1Messages),
                                        mentionedUsers[2],
                                        ToString(topDifference.user2Messages)>> >>
                          ELSE <<>>)
                      \o (IF /\ user1Focus # <<>> /\ user2Focus # <<>>
                             /\ user1Focus[1][1] # user2Focus[1][1]
                          THEN << <<"Different focus areas: {} primarily discusses \"{}\", {} focuses on \"{}\"",
                                   mentionedUsers[1],
                                   getTopicName(names, user1Focus[1][1]),
                                   mentionedUsers[2],
                                   getTopicName(names, user2Focus[1][1])>> >>
                          ELSE <<>>)
                 ELSE << <<"Users {} and {} have not participated in the same topic discussions",
                          mentionedUsers[1], mentionedUsers[2]>> >>
        ELSE << <<"To analyze user disagreements, please specify user names in your question (e.g., \"How do @James_T81 and @joybaruarobin differ?\")">> >>

analyzeTrendingTopics(messages, topicsData, question) ==
    IF Len(topicsData) = 0 THEN <<>>
    ELSE LET topTopic == topicsData[1]
         IN  << <<"Most trending topic: \"{}\" with {} recent messages",
                  topTopic.name, ToString(topTopic.messageCount)>>,
                <<"Trending engagement: {} active contributors in this topic",
                  ToString(topTopic.contributorCount)>> >>
             \o (IF Len(topicsData) > 1
                 THEN << <<"Trend strength: \"{}\" leads by {} messages over \"{}\"",
                          topTopic.name,
                          ToString(topTopic.messageCount - topicsData[2].messageCount),
                          topicsData[2].name>> >>
                 ELSE <<>>)

\* userMessageCounts of analyzeUserEngagement: keyed by fromUserName
RECURSIVE countByUserName(_, _, _)
countByUserName(messages, i, acc) ==
    IF i > Len(messages) THEN acc
    ELSE countByUserName(messages, i + 1,
            IF hasUserAndName(messages[i])
            THEN MapSet(acc, messages[i].fromUserName,
                        MapGetOr(acc, messages[i].fromUserName, 0) + 1)
            ELSE acc)

analyzeUserEngagement(messages, topicsData, users, question) ==
    LET avgMessagesPerUser ==
            IF Len(users) > 0 THEN RoundDiv(Len(messages), Len(users)) ELSE 0
        sortedUsers == sortByCount(countByUserName(messages, 1, <<>>))
    IN  << <<"Overall engagement: {} average messages per user",
             ToString(avgMessagesPerUser)>> >>
        \o (IF Len(sortedUsers) > 0
            THEN << <<"Most engaged user: @{} with {} messages",
                     sortedUsers[1][1], ToString(sortedUsers[1][2])>> >>
            ELSE <<>>)
        \o (IF Len(sortedUsers) > 1
            THEN << <<"Second most engaged: @{} with {} messages",
                     sortedUsers[2][1], ToString(sortedUsers[2][2])>> >>
            ELSE <<>>)

analyzeSentimentPatterns(messages, topicsData, question) ==
    LET topicDiversity == Len(topicsData)
        avgText == RoundDivText(Len(messages), topicDiversity)
    IN  (IF topicDiversity > 5
         THEN << <<"High topic diversity ({} topics) suggests active, varied discussions",
                  ToString(topicDiversity)>>,
                <<"Community sentiment: Engaged and diverse conversation patterns">> >>
         ELSE << <<"Focused discussions around {} main topics", ToString(topicDiversity)>>,
                <<"Community sentiment: Concentrated engagement on key issues">> >>)
        \o (IF (IF topicDiversity = 0 THEN Len(messages) > 0
                ELSE RoundDiv(Len(messages), topicDiversity) > 10)
            THEN << <<"High engagement intensity: {} average messages per topic", avgText>> >>
            ELSE << <<"Moderate engagement: {} average messages per topic", avgText>> >>)

topicInsights(template, topics) ==
    [j \in 1..Len(topics) |->
        <<template, topics[j].name, ToString(topics[j].messageCount),
          ToString(topics[j].contributorCount)>>]

analyzeConcerns(messages, topicsData, question) ==
    LET concernTopics ==
            SelectSeq(topicsData, LAMBDA topic :
                \/ includes(topic.name, "Governance")
                \/ includes(topic.name, "Technical")
                \/ includes(topic.name, "Security")
                \/ includes(topic.name, "Audit"))
    IN  IF Len(concernTopics) > 0
        THEN topicInsights("Concern area: \"{}\" - {} messages from {} contributors",
                           concernTopics)
        ELSE << <<"No major concern topics identified in current discussions">> >>

analyzeProtocolDiscussions(messages, topicsData, question) ==
    LET protocolTopics ==
            SelectSeq(topicsData, LAMBDA topic :
                \/ includes(topic.name, "DeFi")
                \/ includes(topic.name, "Protocol")
                \/ includes(topic.name, "Token"))
    IN  IF Len(protocolTopics) > 0
        THEN topicInsights("Protocol discussion: \"{}\" - {} messages from {} contributors",
                           protocolTopics)
        ELSE << <<"Limited protocol-specific discussions in current dataset">> >>

\* messagesWithTimestamps.sort((a, b) => a.timestamp - b.timestamp): stable,
\* ascending
RECURSIVE insertByTimestamp(_, _)
insertByTimestamp(s, x) ==
    IF s = <<>> THEN <<x>>
    ELSE IF Head(s).timestamp <= x.timestamp
         THEN <<Head(s)>> \o insertByTimestamp(Tail(s), x)
         ELSE <<x>> \o s

RECURSIVE sortByTimestamp(_)
sortByTimestamp(s) ==
    IF s = <<>> THEN <<>>
    ELSE insertByTimestamp(sortByTimestamp(SubSeq(s, 1, Len(s) - 1)), s[Len(s)])

\* new Date(timestamp * 1000).toLocaleDateString(): the text depends on the
\* locale and the time zone of the browser and is kept symbolic
dateText(timestamp) == "toLocaleDateString(" \o ToString(timestamp * 1000) \o ")"

\* the Set of recent topic ids keeps undefined as one value, written -2 here
\* (the topic ids of the model are -1 and up)
analyzeTemporalPatterns(messages, topicsData, question) ==
    LET messagesWithTimestamps ==
            sortByTimestamp(SelectSeq(messages,
                LAMBDA m : Has(m, "timestamp") /\ m.timestamp # 0))
        n == Len(messagesWithTimestamps)
    IN  IF n > 0
        THEN LET recentCount    == (n + 3) \div 4
                 recentMessages == SubSeq(messagesWithTimestamps, n - recentCount + 1, n)
                 recentTopics   ==
                     {IF Has(recentMessages[k], "topicId")
                      THEN recentMessages[k].topicId ELSE -2 :
                         k \in 1..Len(recentMessages)} \ {-1}
             IN  << <<"Time range: {} to {}",
                      dateText(messagesWithTimestamps[1].timestamp),
                      dateText(messagesWithTimestamps[n].timestamp)>>,
                    <<"Recent activity: {} messages across {} topics",
                      ToString(Len(recentMessages)),
                      ToString(Cardinality(recentTopics))>> >>
        ELSE << <<"Temporal analysis: {} messages available for time-based analysis",
                 ToString(Len(messages))>> >>

analyzeGeneralQuestion(messages, topicsData, users, question) ==
    << <<"Custom analysis for: \"{}\"", question>>,
       <<"Analyzing {} messages across {} topics from {} users",
         ToString(Len(messages)), ToString(Len(topicsData)), ToString(Len(users))>> >>
    \o (IF Len(topicsData) > 0
        THEN << <<"Primary topic: \"{}\" with {} messages from {} contributors",
                 topicsData[1].name, ToString(topicsData[1].messageCount),
                 ToString(topicsData[1].contributorCount)>> >>
        ELSE <<>>)

\* a chain that tests trending / popular before the disagreement keywords
routeTrendingFirst(question) ==
    IF includes(question, "trending") \/ includes(question, "popular")
    THEN "analyzeTrendingTopics"
    ELSE IF /\ includes(question, "differ")
            /\ \/ includes(question, "opinion")
               \/ includes(question, "disagree")
               \/ includes(question, "preferences")
    THEN "analyzeUserDisagreements"
    ELSE IF includes(question, "engaged") \/ includes(question, "active")
    THEN "analyzeUserEngagement"
    ELSE IF includes(question, "sentiment") \/ includes(question, "mood")
    THEN "analyzeSentimentPatterns"
    ELSE IF \/ includes(question, "concern") \/ includes(question, "issue")
            \/ includes(question, "problem")
    THEN "analyzeConcerns"
    ELSE IF includes(question, "defi") \/ includes(question, "protocol")
    THEN "analyzeProtocolDiscussions"
    ELSE IF \/ includes(question, "when") \/ includes(question, "time")
            \/ includes(question, "recent")
    THEN "analyzeTemporalPatterns"
    ELSE "analyzeGeneralQuestion"

\* the if / else-if chain of generateCustomQueryInsights on the lowercased
\* question: the analyzer it calls
routeOf(question) ==
    IF /\ includes(question, "differ")
       /\ \/ includes(question, "opinion")
          \/ includes(question, "disagree")
          \/ includes(question, "preferences")
    THEN "analyzeUserDisagreements"
    ELSE IF includes(question, "trending") \/ includes(question, "popular")
    THEN "analyzeTrendingTopics"
    ELSE IF includes(question, "engaged") \/ includes(question, "active")
    THEN "analyzeUserEngagement"
    ELSE IF includes(question, "sentiment") \/ includes(question, "mood")
    THEN "analyzeSentimentPatterns"
    ELSE IF \/ includes(question, "concern") \/ includes(question, "issue")
            \/ includes(question, "problem")
    THEN "analyzeConcerns"
    ELSE IF includes(question, "defi") \/ includes(question, "protocol")
    THEN "analyzeProtocolDiscussions"
    ELSE IF \/ includes(question, "when") \/ includes(question, "time")
            \/ includes(question, "recent")
    THEN "analyzeTemporalPatterns"
    ELSE "analyzeGeneralQuestion"

\* the analyzers by name
analyze(analyzer, messages, topicsData, users, question, names) ==
    CASE analyzer = "analyzeUserDisagreements" ->
            analyzeUserDisagreements(messages, topicsData, users, question, names)
      [] analyzer = "analyzeTrendingTopics" ->
            analyzeTrendingTopics(messages, topicsData, question)
      [] analyzer = "analyzeUserEngagement" ->
            analyzeUserEngagement(messages, topicsData, users, question)
      [] analyzer = "analyzeSentimentPatterns" ->
            analyzeSentimentPatterns(messages, topicsData, question)
      [] analyzer = "analyzeConcerns" ->
            analyzeConcerns(messages, topicsData, question)
      [] analyzer = "analyzeProtocolDiscussions" ->
            analyzeProtocolDiscussions(messages, topicsData, question)
      [] analyzer = "analyzeTemporalPatterns" ->
            analyzeTemporalPatterns(messages, topicsData, question)
      [] OTHER ->
            analyzeGeneralQuestion(messages, topicsData, users, question)

generateCustomQueryInsights(messages, topicsData, users, customQuestion, names) ==
    LET question == toLowerCase(customQuestion)
    IN  analyze(routeOf(question), messages, topicsData, users, question, names)

\* switch (queryData.type)
querySpecificInsights(messages, topicsData, users, queryData, names) ==
    CASE queryData.type = "user_analysis" /\ Len(queryData.users) = 1 ->
            << <<"Analysis focused on single user behavior and topic preferences">> >>
      [] queryData.type = "users_analysis" /\ Len(queryData.users) > 1 ->
            << <<"Comparative analysis across {} selected users",
                 ToString(Len(queryData.users))>> >>
      [] queryData.type = "time_window" ->
            << <<"Time-based analysis showing topic trends and activity patterns">> >>
      [] queryData.type = "version_evolution" ->
            << <<"Evolution analysis tracking topic changes over time">> >>
      [] queryData.type = "custom_query" /\ queryData.customQuestion # "" ->
            << <<"Custom analysis for question: \"{}\"", queryData.customQuestion>> >>
            \o generateCustomQueryInsights(messages, topicsData, users,
                                           queryData.customQuestion, names)
      [] queryData.type = "custom_query" /\ queryData.customQuestion = "" ->
            << <<"Custom query selected but no question provided">> >>
      [] OTHER -> <<>>

generateInsights(messages, topicsData, users, queryData, names) ==
    IF Len(topicsData) = 0
    THEN << <<"No topics identified in the conversation data">> >>
    ELSE baseInsights(messages, topicsData, users)
         \o querySpecificInsights(messages, topicsData, users, queryData, names)

\* ------------------------------------------------------- processTreeLocally
NullTree == [null |-> TRUE]

\* !treeData || !treeData.messages
noMessages(treeData) == treeData = NullTree \/ ~Has(treeData, "messages")

metadataOf(queryData, version) ==
    [version |-> version, queryType |-> queryData.type,
     processingMethod |-> "local", enhanced |-> FALSE]

\* the early return: data is the empty object
noDataResult(queryData, version) ==
    [summary  |-> "No data available for processing",
     data     |-> <<>>,
     insights |-> << <<"No messages found in the tree data">> >>,
     metadata |-> metadataOf(queryData, version)]

firstFive(s) == SubSeq(s, 1, IF Len(s) < 5 THEN Len(s) ELSE 5)

\* names is this.topicNames as extractTopicNames(treeData) has left it
processTreeLocally(treeData, queryData, version, names) ==
    IF noMessages(treeData) THEN noDataResult(queryData, version)
    ELSE LET messages == filterMessages(treeData.messages, queryData.users)
             u == extractUsers(messages, 1,
                     [users |-> <<>>, userMessageCounts |-> <<>>, userTopics |-> <<>>])
             t == analyzeTopics(messages, 1,
                     [topicMessageCounts |-> <<>>, topicUsers |-> <<>>])
             users      == u.users
             topicsData == buildTopicsData(t.topicMessageCounts, t.topicUsers, users, names)
             topicSum   == SumSeq([j \in 1..Len(u.userTopics) |->
                                      Cardinality(u.userTopics[j][2])])
         IN  [summary  |-> "Users discussing " \o ToString(Len(topicsData))
                           \o " topics with " \o ToString(Len(messages))
                           \o " total messages",
              data     |->
                 [messageCount       |-> Len(messages),
                  topicCount         |-> Len(topicsData),
                  activeUsers        |-> Len(users),
                  topics             |-> topicsData,
                  topicsByPopularity |-> firstFive(topicsData),
                  mostDiscussedTopic |-> IF Len(topicsData) > 0 THEN topicsData[1] ELSE None,
                  userEngagement     |->
                     [averageMessagesPerUser |->
                          IF Len(users) > 0 THEN RoundDiv(Len(messages), Len(users)) ELSE 0,
                      averageTopicsPerUser |->
                          IF Len(users) > 0 THEN RoundDiv(topicSum, Len(users)) ELSE 0]],
              insights |-> generateInsights(messages, topicsData, users, queryData, names),
              metadata |-> metadataOf(queryData, version)]

\* this.topicNames after processTreeLocally(treeData, ...): the early return
\* comes before extractTopicNames
topicNamesAfter(treeData, names) ==
    IF noMessages(treeData) THEN names ELSE extractTopicNames(treeData, names)

\* ------------------------------------------------------------ constructor
\* parseInt(e.target.value) || null: the empty option, and 0, give null
NoVersion == 0

\* no channel selected: null after construction and after resetUI, modelled
\* as the value of the empty option, which is falsy as well
NoChannel == ""

\* localStorage holds no key: initializeOpenAI returns null, which is falsy
\* like the empty string that stands for it here
NoOpenAIKey == ""

Slots == 1..3

NoSlots == [i \in Slots |-> None]

\* no slot written yet: runs are numbered from 1
NoOwners == [i \in Slots |-> 0]

\* the fields the constructor sets; the execute button starts disabled, as
\* resetUI leaves it
UiConstructed ==
    /\ selectedChannel = NoChannel
    /\ selectedVersions = [i \in Slots |-> NoVersion]
    /\ availableVersions = <<>>
    /\ availableUsers = <<>>
    /\ resultsCache = NoSlots
    /\ executeBtnDisabled = TRUE
    /\ loads = <<>>
    /\ selects = 0
    /\ runs = <<>>
    /\ cacheOwner = NoOwners
    /\ shown = None

\* the fields of the comparison mode: the constructor sets none of them
NoComparison ==
    /\ comparisonEnabled = FALSE
    /\ firstVersion = NoVersion /\ secondVersion = NoVersion
    /\ firstResultsTemp = None
    /\ fetches = None
    /\ comparisonView = None

\* a session with no stored key, before any query has run
NoSession ==
    /\ openaiApiKey = NoOpenAIKey
    /\ twinTree = None
    /\ enh = None
    /\ processed = <<>>
    /\ NoComparison

\* ------------------------------------------------------------------ inputs
UserName(u) == IF u = 1 THEN "alice" ELSE "bob"

Msg(u, t) == [fromUserId |-> Num(u), fromUserName |-> UserName(u), topicId |-> t]

\* messages of users 1 and 2 in topics 0 and 1, a message whose user id has
\* no name, one with the sentinel topic id, one with no topic id and one
\* with no user
MsgPool ==
    {Msg(u, t) : u \in 1..2, t \in 0..1}
    \cup {[fromUserId |-> Num(1), topicId |-> 0],
          Msg(2, -1),
          [fromUserId |-> Num(1), fromUserName |-> "alice"],
          [topicId |-> 1]}

MsgSeqs == UNION {[1..n -> MsgPool] : n \in 0..MaxMsgs}

\* a topics object: an entry with a name and a title, one with a title only
\* and one with neither
SomeTopics ==
    (0 :> [name |-> "Alpha", title |-> "Alpha title"])
    @@ (1 :> [title |-> "Beta"])
    @@ (2 :> [id |-> 2])

OtherTopics == (0 :> [name |-> "Gamma"])

Trees ==
    {NullTree, [topics |-> SomeTopics]}
    \cup {[messages |-> s] : s \in MsgSeqs}
    \cup {[messages |-> s, topics |-> SomeTopics] : s \in MsgSeqs}

\* trees of other channels or versions processed in the same session
OtherTrees ==
    {[messages |-> <<Msg(1, 0)>>, topics |-> OtherTopics],
     [topics |-> OtherTopics]}

Query(type, users) == [type |-> type, users |-> users, customQuestion |-> ""]

Queries ==
    {Query("channel_query", <<>>),
     Query("channel_query", <<Str(2)>>),
     Query("user_analysis", <<Str(1)>>),
     Query("users_analysis", <<Str(1), Str(2)>>)}

TheVersion == 1

\* ------------------------------------------------------------ SpecProc
\* a session of processTreeLocally calls: on the tree and query under study
\* and, in between, on other trees
InitProc ==
    /\ theTree \in Trees
    /\ theQuery \in Queries
    /\ topicNames = <<>>
    /\ call = None
    /\ result = None
    /\ first = None
    /\ deltaIn = None
    /\ deltaOut = None
    /\ UiConstructed
    /\ NoSession

ProcessTree(t, q) ==
    /\ topicNames' = topicNamesAfter(t, topicNames)
    /\ result' = processTreeLocally(t, q, TheVersion, topicNames')
    /\ call' = [tree |-> t, query |-> q]
    /\ first' = IF first = None /\ t = theTree /\ q = theQuery THEN result' ELSE first
    /\ UNCHANGED <<theTree, theQuery, deltaVars, sessVars, formVars, execVars>>

ProcessStudied == ProcessTree(theTree, theQuery)

ProcessOther == \E t \in OtherTrees : ProcessTree(t, Query("channel_query", <<>>))

NextProc == ProcessStudied \/ ProcessOther

SpecProc == InitProc /\ [][NextProc]_vars

\* ------------------------------------------- claims on processTreeLocally
called == call # None

\* the messages the last call processed: the tree's messages after the filter
processedMessages ==
    IF noMessages(call.tree) THEN <<>>
    ELSE filterMessages(call.tree.messages, call.query.users)

isCount(data, f, n) == Has(data, f) /\ data[f] = n

\* C1: processTreeLocally on a tree that is absent or has no messages field
\* returns messageCount, topicCount and activeUsers all zero and, as its
\* only insight, "No messages found in the tree data"
C1_NoDataResult ==
    (called /\ noMessages(call.tree)) =>
        /\ isCount(result.data, "messageCount", 0)
        /\ isCount(result.data, "topicCount", 0)
        /\ isCount(result.data, "activeUsers", 0)
        /\ result.insights = << <<"No messages found in the tree data">> >>

\* what the code does return there: the one insight, and a data object
\* without any count
C1_NoDataAsCoded ==
    (called /\ noMessages(call.tree)) =>
        /\ result.data = <<>>
        /\ result.insights = << <<"No messages found in the tree data">> >>

\* C2: a later call with the tree and the query of an earlier call returns
\* the same data and the same insights, whatever was processed in between
C2_Deterministic ==
    (called /\ call.tree = theTree /\ call.query = theQuery) =>
        /\ result.data = first.data
        /\ result.insights = first.insights

\* the same call without the user filter
unfiltered == processTreeLocally(call.tree, [call.query EXCEPT !.users = <<>>],
                                 TheVersion, topicNames)

atMost(data, base, f) == Has(data, f) /\ Has(base, f) /\ data[f] <= base[f]

\* C5: with a user filter, messageCount and topicCount are each at most the
\* messageCount and topicCount of the same tree without a filter
C5_FilterMonotone ==
    called =>
        /\ atMost(result.data, unfiltered.data, "messageCount")
        /\ atMost(result.data, unfiltered.data, "topicCount")

\* C5 on the trees that have a message map
C5_OnMessageMaps ==
    (called /\ ~noMessages(call.tree)) =>
        /\ atMost(result.data, unfiltered.data, "messageCount")
        /\ atMost(result.data, unfiltered.data, "topicCount")

\* the distinct fromUserId values among the processed messages
distinctUserIds ==
    {processedMessages[i].fromUserId :
        i \in {k \in 1..Len(processedMessages) : Has(processedMessages[k], "fromUserId")}}

\* C6: activeUsers is the number of distinct fromUserId values among the
\* processed messages, a message with a user id and no user name included
\* (stated on the trees that have a message map)
C6_ActiveUsers ==
    (called /\ ~noMessages(call.tree)) =>
        isCount(result.data, "activeUsers", Cardinality(distinctUserIds))

\* what the code counts: the ids of messages that carry an id and a name
C6_ActiveUsersAsCoded ==
    (called /\ ~noMessages(call.tree)) =>
        isCount(result.data, "activeUsers",
                Cardinality({processedMessages[i].fromUserId :
                    i \in {k \in 1..Len(processedMessages) :
                               hasUserAndName(processedMessages[k])}}))

\* the distinct topic ids, -1 and undefined apart, among the processed messages
distinctTopicIds ==
    {processedMessages[i].topicId :
        i \in {k \in 1..Len(processedMessages) :
                   /\ Has(processedMessages[k], "topicId")
                   /\ processedMessages[k].topicId # -1}}

\* C7: topicCount is the number of distinct topic ids other than -1 and
\* undefined among the processed messages, and the length of the topics list
C7_TopicCount ==
    called =>
        /\ isCount(result.data, "topicCount", Cardinality(distinctTopicIds))
        /\ Has(result.data, "topics")
        /\ result.data.topicCount = Len(result.data.topics)

\* C7 on the trees that have a message map
C7_OnMessageMaps ==
    (called /\ ~noMessages(call.tree)) =>
        /\ isCount(result.data, "topicCount", Cardinality(distinctTopicIds))
        /\ result.data.topicCount = Len(result.data.topics)

\* the number of processed messages with a topic id other than -1 and undefined
topicMessages ==
    Cardinality({k \in 1..Len(processedMessages) :
        /\ Has(processedMessages[k], "topicId")
        /\ processedMessages[k].topicId # -1})

\* C8: messageCount is the number of processed messages, those with topic id
\* -1 or undefined included; the topics' messageCounts add up to the number
\* of processed messages with another topic id, which is at most messageCount
C8_MessageCount ==
    called =>
        /\ isCount(result.data, "messageCount", Len(processedMessages))
        /\ Has(result.data, "topics")
        /\ SumSeq([j \in 1..Len(result.data.topics) |->
                      result.data.topics[j].messageCount]) = topicMessages
        /\ topicMessages <= result.data.messageCount

\* C8 on the trees that have a message map
C8_OnMessageMaps ==
    (called /\ ~noMessages(call.tree)) =>
        /\ isCount(result.data, "messageCount", Len(processedMessages))
        /\ SumSeq([j \in 1..Len(result.data.topics) |->
                      result.data.topics[j].messageCount]) = topicMessages
        /\ topicMessages <= result.data.messageCount

\* the position of the first processed message of a topic, of a contributor
firstOf(S) == CHOOSE k \in S : \A l \in S : k <= l

firstMessageOfTopic(topicId) ==
    firstOf({k \in 1..Len(processedMessages) :
        /\ Has(processedMessages[k], "topicId")
        /\ processedMessages[k].topicId = topicId})

firstMessageOfContributor(topicId, userId) ==
    firstOf({k \in 1..Len(processedMessages) :
        /\ Has(processedMessages[k], "topicId")
        /\ processedMessages[k].topicId = topicId
        /\ Has(processedMessages[k], "fromUserId")
        /\ ParseInt(processedMessages[k].fromUserId) = userId})

inOrder(a, b, firstA, firstB) ==
    \/ a.messageCount > b.messageCount
    \/ a.messageCount = b.messageCount /\ firstA < firstB

\* C9: the topics list and every contributors list are in non-increasing
\* order of messageCount, and entries with equal counts are in the order in
\* which the processed messages first brought them up
C9_SortedStable ==
    (called /\ Has(result.data, "topics")) =>
        LET topics == result.data.topics
        IN  /\ \A i, j \in 1..Len(topics) : i < j =>
                   inOrder(topics[i], topics[j],
                           firstMessageOfTopic(topics[i].id),
                           firstMessageOfTopic(topics[j].id))
            /\ \A t \in 1..Len(topics) :
                   LET cs == topics[t].contributors
                   IN  \A i, j \in 1..Len(cs) : i < j =>
                           inOrder(cs[i], cs[j],
                                   firstMessageOfContributor(topics[t].id, cs[i].userId),
                                   firstMessageOfContributor(topics[t].id, cs[j].userId))

\* a result whose first topic was brought up after its second one, and in
\* which a topic has two contributors with equal counts
C9_Witness ==
    /\ called /\ Has(result.data, "topics")
    /\ LET topics == result.data.topics
       IN  /\ Len(topics) >= 2
           /\ firstMessageOfTopic(topics[1].id) > firstMessageOfTopic(topics[2].id)
           /\ \E t \in 1..Len(topics) :
                  /\ Len(topics[t].contributors) >= 2
                  /\ topics[t].contributors[1].messageCount
                         = topics[t].contributors[2].messageCount

\* ----------------------------------------------------- generateDeltaAnalysis
topicIds(topics) == {topics[j].id : j \in 1..Len(topics)}

topicById(topics, id) == topics[CHOOSE j \in 1..Len(topics) : topics[j].id = id]

\* the percentage rounded down instead of to the nearest integer
changePercentFloor(change, previous) == (100 * change) \div previous

\* Math.round((change / previous) * 100) for previous > 0: halves round up
changePercentOf(change, previous) == (200 * change + previous) \div (2 * previous)

\* firstResults.data.topics.map(...) throws a TypeError when data has no
\* topics; otherwise the three lists the delta tab renders
generateDeltaAnalysis(firstResults, secondResults) ==
    IF ~Has(firstResults.data, "topics") \/ ~Has(secondResults.data, "topics")
    THEN [threw |-> "TypeError"]
    ELSE LET firstTopics  == firstResults.data.topics
             secondTopics == secondResults.data.topics
             changed == SelectSeq(firstTopics, LAMBDA t :
                            /\ t.id \in topicIds(secondTopics)
                            /\ t.messageCount # topicById(secondTopics, t.id).messageCount)
         IN  [newTopics     |-> SelectSeq(secondTopics,
                                    LAMBDA t : t.id \notin topicIds(firstTopics)),
              removedTopics |-> SelectSeq(firstTopics,
                                    LAMBDA t : t.id \notin topicIds(secondTopics)),
              changedTopics |->
                  [j \in 1..Len(changed) |->
                      LET firstTopic  == changed[j]
                          secondTopic == topicById(secondTopics, firstTopic.id)
                          change      == secondTopic.messageCount - firstTopic.messageCount
                      IN  [id            |-> secondTopic.id,
                           name          |-> secondTopic.name,
                           messageCount  |-> secondTopic.messageCount,
                           contributorCount |-> secondTopic.contributorCount,
                           contributors  |-> secondTopic.contributors,
                           change        |-> change,
                           changePercent |-> changePercentOf(change, firstTopic.messageCount),
                           previousCount |-> firstTopic.messageCount]]]

\* ------------------------------------------------------------- SpecDelta
\* generateDeltaAnalysis on the results of an earlier and a later version
DeltaMsgPool == {Msg(1, 0), Msg(2, 1), Msg(1, 2)}

DeltaTrees ==
    {NullTree} \cup {[messages |-> s] : s \in UNION {[1..n -> DeltaMsgPool] : n \in 0..MaxDeltaMsgs}}

EarlierVersion == 1
LaterVersion == 2

resultOfVersion(treeData, version) ==
    processTreeLocally(treeData, Query("version_evolution", <<>>), version,
                       topicNamesAfter(treeData, <<>>))

InitDelta ==
    /\ \E a, b \in DeltaTrees :
           deltaIn = [firstTree     |-> a,
                      secondTree    |-> b,
                      firstResults  |-> resultOfVersion(a, EarlierVersion),
                      secondResults |-> resultOfVersion(b, LaterVersion)]
    /\ deltaOut = None
    /\ topicNames = <<>>
    /\ theTree = None /\ theQuery = None /\ call = None /\ result = None /\ first = None
    /\ UiConstructed
    /\ NoSession

GenerateDelta ==
    /\ deltaOut = None
    /\ deltaOut' = generateDeltaAnalysis(deltaIn.firstResults, deltaIn.secondResults)
    /\ UNCHANGED <<topicNames, procVars, deltaIn, formVars, execVars, sessVars>>

NextDelta == GenerateDelta

SpecDelta == InitDelta /\ [][NextDelta]_vars

\* the topic ids and counts of a version, read off its tree
idsOfTree(treeData) ==
    IF noMessages(treeData) THEN {}
    ELSE {treeData.messages[k].topicId :
            k \in {l \in 1..Len(treeData.messages) : hasTopic(treeData.messages[l])}}

countIn(treeData, id) ==
    Cardinality({k \in 1..Len(treeData.messages) :
        hasTopic(treeData.messages[k]) /\ treeData.messages[k].topicId = id})

listedOnce(list, id) == Cardinality({j \in 1..Len(list) : list[j].id = id}) = 1

listed(list, id) == \E j \in 1..Len(list) : list[j].id = id

classified(a, b, id) ==
    LET inA == id \in idsOfTree(a)
        inB == id \in idsOfTree(b)
        new     == listed(deltaOut.newTopics, id)
        removed == listed(deltaOut.removedTopics, id)
        changed == listed(deltaOut.changedTopics, id)
    IN  /\ new     <=> (inB /\ ~inA)
        /\ removed <=> (inA /\ ~inB)
        /\ changed <=> (inA /\ inB /\ countIn(a, id) # countIn(b, id))
        /\ new     => listedOnce(deltaOut.newTopics, id)
        /\ removed => listedOnce(deltaOut.removedTopics, id)
        /\ changed => listedOnce(deltaOut.changedTopics, id)

addsOneUnseenTopic(a, b) ==
    /\ ~noMessages(a) /\ ~noMessages(b)
    /\ Len(b.messages) = Len(a.messages) + 1
    /\ SubSeq(b.messages, 1, Len(a.messages)) = a.messages
    /\ hasTopic(b.messages[Len(b.messages)])
    /\ b.messages[Len(b.messages)].topicId \notin idsOfTree(a)

deltaCorrect(a, b) ==
    /\ ~Has(deltaOut, "threw")
    /\ \A id \in idsOfTree(a) \cup idsOfTree(b) : classified(a, b, id)
    /\ addsOneUnseenTopic(a, b) =>
          LET id == b.messages[Len(b.messages)].topicId
          IN  /\ Len(deltaOut.newTopics) = 1
              /\ deltaOut.newTopics[1].id = id
              /\ deltaOut.newTopics[1].messageCount = 1
              /\ deltaOut.removedTopics = <<>>
              /\ ~listed(deltaOut.changedTopics, id)

\* C10: every topic id of either version is in exactly one of new (only in
\* the later version), removed (only in the earlier), changed (in both, with
\* different counts) and unchanged (in both, equal counts, listed nowhere);
\* when the later version is the earlier one plus one message of an unseen
\* topic id, that id is the only new topic, with count 1, nothing is removed
\* and the id is not changed
C10_DeltaClassification ==
    deltaOut # None => deltaCorrect(deltaIn.firstTree, deltaIn.secondTree)

\* C10 when both versions' trees have a message map
C10_OnMessageMaps ==
    (/\ deltaOut # None
     /\ ~noMessages(deltaIn.firstTree)
     /\ ~noMessages(deltaIn.secondTree)) =>
        deltaCorrect(deltaIn.firstTree, deltaIn.secondTree)

\* ------------------------------------------------ the remote query service
Channels == {"2148778849"}

\* two of the keys of this.datasets
Datasets == {"2148778849", "2148778850"}

\* get_topic_tree_versions_by_channel: the channel's versions
ChannelVersions(ch) == IF ch = "2148778849" THEN <<1, 2>> ELSE <<3>>

\* get_topic_tree_by_channel_and_version: in the first channel version 2
\* holds version 1's message and one more; the other channel has one
\* message of one user
ChannelTree(ch, version) ==
    IF ch = "2148778849"
    THEN [messages |-> SubSeq(<<Msg(1, 0), Msg(2, 1)>>, 1, version)]
    ELSE [messages |-> <<Msg(2, 0)>>]

\* ----------------------------------------------- executeQueryAgainstVersion
FormQuery == Query("channel_query", <<>>)

formatRawApiResponse(treeData, channel, version) ==
    [endpoint   |-> "get_topic_tree_by_channel_and_version",
     parameters |-> [channelId |-> channel, version |-> version],
     messageCount |-> IF Has(treeData, "messages") THEN Len(treeData.messages) ELSE 0]

\* ------------------------------------------------------ enhanceWithOpenAI
isSpace(c) == c = " " \/ c = "\n" \/ c = "\t"

RECURSIVE trimStart(_)
trimStart(s) ==
    IF s # "" /\ isSpace(SubSeq(s, 1, 1)) THEN trimStart(SubSeq(s, 2, Len(s))) ELSE s

RECURSIVE trimEnd(_)
trimEnd(s) ==
    IF s # "" /\ isSpace(SubSeq(s, Len(s), Len(s)))
    THEN trimEnd(SubSeq(s, 1, Len(s) - 1)) ELSE s

\* String.prototype.trim
trim(s) == trimEnd(trimStart(s))

\* `${x}` of a property that may be undefined
textOf(obj, f) == IF Has(obj, f) THEN ToString(obj[f]) ELSE "undefined"

\* the context object: built from the local result, and sent nowhere
prepareOpenAIContext(localResults, queryData, treeData) ==
    [summary  |-> localResults.summary,
     insights |-> localResults.insights]
    @@ [f \in {"topics", "userEngagement", "messageCount", "topicCount", "activeUsers"}
            \cap DOMAIN localResults.data |-> localResults.data[f]]

\* a prompt that reads the response's tree: the number of messages is the
\* tree's, before the user filter
promptWithRawTree(localResults, queryData, treeData) ==
    IF ~Has(localResults.data, "topics") THEN [threw |-> "TypeError"]
    ELSE LET topics == localResults.data.topics
         IN  [question       |-> queryData.customQuestion,
              dataset        |-> queryData.dataset,
              version        |-> textOf(localResults, "version"),
              messages       |-> ToString(Len(treeData.messages)),
              topics         |-> textOf(localResults.data, "topicCount"),
              users          |-> textOf(localResults.data, "activeUsers"),
              topicAnalysis  |->
                  [j \in 1..Len(topics) |->
                      <<topics[j].name, ToString(topics[j].messageCount),
                        ToString(topics[j].contributorCount)>>],
              userEngagement |->
                  [j \in 1..Len(topics) |->
                      <<topics[j].name,
                        [c \in 1..Len(topics[j].contributors) |->
                            <<topics[j].contributors[c].username,
                              ToString(topics[j].contributors[c].messageCount)>>]>>],
              localInsights  |-> localResults.insights]

\* the interpolated parts of the prompt, in the order the template literal
\* evaluates them (its fixed text is left out); localResults is the value
\* processTreeLocally returned, which has no version property;
\* localResults.data.topics.map throws a TypeError on the no-data result
openAIPrompt(localResults, queryData, treeData) ==
    IF ~Has(localResults.data, "topics") THEN [threw |-> "TypeError"]
    ELSE LET topics == localResults.data.topics
         IN  [question       |-> queryData.customQuestion,
              dataset        |-> queryData.dataset,
              version        |-> textOf(localResults, "version"),
              messages       |-> textOf(localResults.data, "messageCount"),
              topics         |-> textOf(localResults.data, "topicCount"),
              users          |-> textOf(localResults.data, "activeUsers"),
              topicAnalysis  |->
                  [j \in 1..Len(topics) |->
                      <<topics[j].name, ToString(topics[j].messageCount),
                        ToString(topics[j].contributorCount)>>],
              userEngagement |->
                  [j \in 1..Len(topics) |->
                      <<topics[j].name,
                        [c \in 1..Len(topics[j].contributors) |->
                            <<topics[j].contributors[c].username,
                              ToString(topics[j].contributors[c].messageCount)>>]>>],
              localInsights  |-> localResults.insights]

\* the fetch enhanceWithOpenAI issues: None when building the prompt threw
openAIRequest(localResults, queryData, treeData, apiKey) ==
    LET prompt == openAIPrompt(localResults, queryData, treeData)
    IN  IF Has(prompt, "threw") THEN None
        ELSE [url           |-> "https://api.openai.com/v1/chat/completions",
              method        |-> "POST",
              authorization |-> "Bearer " \o apiKey,
              model         |-> "gpt-4",
              system        |-> "You are a professional community intelligence analyst. Provide clear, actionable insights based on conversation data.",
              user          |-> prompt,
              max_tokens    |-> 200,
              temperature   |-> "0.3"]

\* data.choices[0].message.content is there to be trimmed
hasContent(response) ==
    /\ response.kind = "http" /\ response.json
    /\ Has(response.data, "choices")
    /\ Len(response.data.choices) > 0
    /\ Has(response.data.choices[1], "message")
    /\ Has(response.data.choices[1].message, "content")

\* an enhancement that puts the header block in place of the first local
\* insights instead of in front of them
enhanceOverwritingInsights(localResults, queryData, treeData, apiKey, response) ==
    IF openAIRequest(localResults, queryData, treeData, apiKey) = None
       \/ response.kind = "networkError"
       \/ ~response.ok \/ ~response.json \/ ~hasContent(response)
    THEN [threw |-> "Error"]
    ELSE [summary   |-> localResults.summary,
          data      |-> localResults.data,
          aiSummary |-> trim(response.data.choices[1].message.content),
          insights  |->
              << <<"AI-Enhanced Analysis for: \"{}\"", queryData.customQuestion>>,
                 <<"Local Analysis:">> >>
              \o SubSeq(localResults.insights, 3, Len(localResults.insights)),
          metadata  |->
              [version           |-> localResults.metadata.version,
               queryType         |-> localResults.metadata.queryType,
               processingMethod  |-> localResults.metadata.processingMethod,
               enhanced          |-> TRUE,
               enhancementMethod |-> "openai-gpt4"]]

\* the value enhanceWithOpenAI resolves to, or what it throws; the two header
\* insights are written without their leading pictographs
enhanceWithOpenAI(localResults, queryData, treeData, apiKey, response) ==
    IF openAIRequest(localResults, queryData, treeData, apiKey) = None
    THEN [threw |-> "TypeError"]
    ELSE IF response.kind = "networkError" THEN [threw |-> "TypeError: Failed to fetch"]
    ELSE IF ~response.ok
    THEN [threw |-> "OpenAI API error: " \o ToString(response.status)]
    ELSE IF ~response.json THEN [threw |-> "SyntaxError"]
    ELSE IF ~hasContent(response) THEN [threw |-> "TypeError"]
    ELSE [summary   |-> localResults.summary,
          data      |-> localResults.data,
          aiSummary |-> trim(response.data.choices[1].message.content),
          insights  |->
              << <<"AI-Enhanced Analysis for: \"{}\"", queryData.customQuestion>>,
                 <<"Local Analysis:">> >>
              \o localResults.insights,
          metadata  |->
              [version           |-> localResults.metadata.version,
               queryType         |-> localResults.metadata.queryType,
               processingMethod  |-> localResults.metadata.processingMethod,
               enhanced          |-> TRUE,
               enhancementMethod |-> "openai-gpt4"]]

\* this.openaiEnabled && type === 'custom_query' && customQuestion
enhancementAttempted(queryData, apiKey) ==
    /\ apiKey # NoOpenAIKey
    /\ queryData.type = "custom_query"
    /\ queryData.customQuestion # ""

\* executeQueryAgainstVersion without the catch around the enhancement: what
\* enhanceWithOpenAI throws reaches the caller
executeWithoutCatch(queryData, channel, version, treeData, names, openai) ==
    LET processedResults == processTreeLocally(treeData, queryData, version, names)
        enhancedResults ==
            enhanceWithOpenAI(processedResults, queryData, treeData,
                              openai.key, openai.response)
    IN  IF ~enhancementAttempted(queryData, openai.key)
        THEN [summary     |-> processedResults.summary,
              data        |-> processedResults.data,
              insights    |-> processedResults.insights,
              metadata    |-> processedResults.metadata,
              rawResponse |-> formatRawApiResponse(treeData, channel, version),
              version     |-> version]
        ELSE IF Has(enhancedResults, "threw") THEN enhancedResults
        ELSE [summary     |-> enhancedResults.summary,
              data        |-> enhancedResults.data,
              aiSummary   |-> enhancedResults.aiSummary,
              insights    |-> enhancedResults.insights,
              metadata    |-> enhancedResults.metadata,
              rawResponse |-> formatRawApiResponse(treeData, channel, version),
              version     |-> version]

\* executeQueryAgainstVersion for a response that has a tree: the local
\* result or, for a custom question with a key at hand, the enhanced one,
\* with rawResponse and version added; openai is the key and the response
\* the enhancement call would get
executeQueryAgainstVersion(queryData, channel, version, treeData, names, openai) ==
    LET processedResults == processTreeLocally(treeData, queryData, version, names)
        attempted == enhancementAttempted(queryData, openai.key)
        enhancedResults ==
            enhanceWithOpenAI(processedResults, queryData, treeData,
                              openai.key, openai.response)
    IN  IF attempted /\ ~Has(enhancedResults, "threw")
        THEN [summary     |-> enhancedResults.summary,
              data        |-> enhancedResults.data,
              aiSummary   |-> enhancedResults.aiSummary,
              insights    |-> enhancedResults.insights,
              metadata    |-> enhancedResults.metadata,
              rawResponse |-> formatRawApiResponse(treeData, channel, version),
              version     |-> version]
        ELSE [summary     |-> processedResults.summary,
              data        |-> processedResults.data,
              insights    |-> processedResults.insights,
              metadata    |-> processedResults.metadata,
              rawResponse |-> formatRawApiResponse(treeData, channel, version),
              version     |-> version]

\* the form's executions run without a key
NoOpenAI == [key |-> NoOpenAIKey, response |-> [kind |-> "networkError"]]

\* ------------------------------------------------ displayMultiVersionResults
\* this.selectedVersions.filter(v => v !== null)
activeVersionsOf(selected) == SelectSeq(selected, LAMBDA v : v # NoVersion)

NaN == <<"NaN", 0>>

\* last.data[f] - first.data[f]: NaN when either operand is undefined
diffOf(last, firstR, f) ==
    IF Has(last.data, f) /\ Has(firstR.data, f)
    THEN Num(last.data[f] - firstR.data[f]) ELSE NaN

RECURSIVE insertByVersion(_, _)
insertByVersion(s, x) ==
    IF s = <<>> THEN <<x>>
    ELSE IF Head(s).version <= x.version
         THEN <<Head(s)>> \o insertByVersion(Tail(s), x)
         ELSE <<x>> \o s

RECURSIVE sortByVersion(_)
sortByVersion(s) ==
    IF s = <<>> THEN <<>>
    ELSE insertByVersion(sortByVersion(SubSeq(s, 1, Len(s) - 1)), s[Len(s)])

generateMultiVersionDelta(results) ==
    IF Len(results) < 2 THEN [note |-> "Need at least 2 versions for comparison"]
    ELSE LET sortedResults == sortByVersion(results)
             firstSorted   == sortedResults[1]
             lastVersion   == sortedResults[Len(sortedResults)]
         IN  [versions    |-> [j \in 1..Len(sortedResults) |-> sortedResults[j].version],
              messageDiff |-> diffOf(lastVersion, firstSorted, "messageCount"),
              topicDiff   |-> diffOf(lastVersion, firstSorted, "topicCount"),
              userDiff    |-> diffOf(lastVersion, firstSorted, "activeUsers")]

\* the version columns and the delta tab; owners is, per slot, the run whose
\* result the display read there
displayMultiVersionResults(run, results, owners, selected) ==
    LET activeVersions == activeVersionsOf(selected)
        cached == {i \in Slots : results[i] # None}
        validResults == [j \in 1..Cardinality(cached) |->
            results[CHOOSE i \in cached : Cardinality({k \in cached : k < i}) = j - 1]]
    IN  [kind    |-> "results",
         by      |-> run,
         columns |-> [i \in Slots |->
                        IF i <= Len(activeVersions) /\ results[i] # None
                        THEN [title |-> selected[i], results |-> results[i]]
                        ELSE None],
         delta   |-> IF Len(activeVersions) > 1
                     THEN generateMultiVersionDelta(validResults) ELSE None,
         owners  |-> owners]

showError(run) == [kind |-> "error", by |-> run]

\* validateForm: only version 1 is needed
formInvalid(channel, selected) == ~(channel # NoChannel /\ selected[1] # NoVersion)

\* -------------------------------------------------------------- SpecExec
\* the form and the query execution, driven by the user's events and by the
\* arrival of the responses; a response's continuations run to the end
\* before the next event is taken
InitExec ==
    /\ UiConstructed
    /\ NoSession
    /\ topicNames = <<>>
    /\ theTree = None /\ theQuery = None /\ call = None /\ result = None /\ first = None
    /\ deltaIn = None /\ deltaOut = None

\* handleDatasetChange(channelId) up to the fetch of loadVersions
handleDatasetChange(ch) ==
    /\ selectedChannel' = ch
    /\ loads' = Append(loads, [channel |-> ch, stage |-> "versions"])
    /\ UNCHANGED <<selectedVersions, availableVersions, availableUsers, executeBtnDisabled>>
    /\ UNCHANGED <<topicNames, procVars, deltaVars, sessVars, execVars>>
    /\ UNCHANGED selects

ChangeDataset(ch) == Len(loads) < MaxLoads /\ handleDatasetChange(ch)

\* handleDatasetChange(""): resetUI
ResetDataset ==
    /\ selectedChannel' = NoChannel
    /\ selectedVersions' = [i \in Slots |-> NoVersion]
    /\ availableVersions' = <<>>
    /\ availableUsers' = <<>>
    /\ resultsCache' = NoSlots
    /\ cacheOwner' = NoOwners
    /\ executeBtnDisabled' = TRUE
    /\ shown' = None
    /\ UNCHANGED <<loads, runs, topicNames, procVars, deltaVars, sessVars>>
    /\ UNCHANGED selects

\* loadVersions after its response: the versions sorted, the latest one
\* selected as version 1, then loadUsers up to its fetch
VersionsLoaded(k) ==
    /\ k \in 1..Len(loads) /\ loads[k].stage = "versions"
    /\ availableVersions' = ChannelVersions(loads[k].channel)
    /\ selectedVersions' =
          [selectedVersions EXCEPT ![1] = availableVersions'[Len(availableVersions')]]
    /\ loads' = [loads EXCEPT ![k] = [channel |-> selectedChannel, stage |-> "users"]]
    /\ UNCHANGED <<selectedChannel, availableUsers, executeBtnDisabled>>
    /\ UNCHANGED <<topicNames, procVars, deltaVars, sessVars, execVars>>
    /\ UNCHANGED selects

\* loadVersions when apiCall throws: showError, then handleDatasetChange
\* goes on to validateForm
VersionsFailed(k) ==
    /\ k \in 1..Len(loads) /\ loads[k].stage = "versions"
    /\ shown' = showError(None)
    /\ executeBtnDisabled' = formInvalid(selectedChannel, selectedVersions)
    /\ loads' = [loads EXCEPT ![k].stage = "done"]
    /\ UNCHANGED <<selectedChannel, selectedVersions, availableVersions, availableUsers>>
    /\ UNCHANGED <<topicNames, procVars, deltaVars, sessVars, resultsCache, runs, cacheOwner>>
    /\ UNCHANGED selects

\* the users that have an id and a name in the channel's tree
ChannelUsers(ch) ==
    LET tr == ChannelTree(ch, ChannelVersions(ch)[Len(ChannelVersions(ch))])
        us == extractUsers(tr.messages, 1,
                 [users |-> <<>>, userMessageCounts |-> <<>>, userTopics |-> <<>>]).users
    IN  [j \in 1..Len(us) |-> [userId |-> us[j][1], username |-> us[j][2]]]

\* loadUsers after its response, then validateForm; the request of a load
\* that found no channel selected can only fail
UsersLoaded(k) ==
    /\ k \in 1..Len(loads) /\ loads[k].stage = "users"
    /\ loads[k].channel # NoChannel
    /\ availableUsers' = ChannelUsers(loads[k].channel)
    /\ executeBtnDisabled' = formInvalid(selectedChannel, selectedVersions)
    /\ loads' = [loads EXCEPT ![k].stage = "done"]
    /\ UNCHANGED <<selectedChannel, selectedVersions, availableVersions>>
    /\ UNCHANGED <<topicNames, procVars, deltaVars, sessVars, execVars>>
    /\ UNCHANGED selects

\* loadUsers when apiCall throws: the error is logged, then validateForm
UsersFailed(k) ==
    /\ k \in 1..Len(loads) /\ loads[k].stage = "users"
    /\ executeBtnDisabled' = formInvalid(selectedChannel, selectedVersions)
    /\ loads' = [loads EXCEPT ![k].stage = "done"]
    /\ UNCHANGED <<selectedChannel, selectedVersions, availableVersions, availableUsers>>
    /\ UNCHANGED <<topicNames, procVars, deltaVars, sessVars, execVars>>
    /\ UNCHANGED selects

\* change of a version select: the options are the available versions and
\* the empty option
SelectVersion(slot, v) ==
    /\ selects < MaxSelects
    /\ selects' = selects + 1
    /\ availableVersions # <<>>
    /\ v = NoVersion \/ \E j \in 1..Len(availableVersions) : availableVersions[j] = v
    /\ selectedVersions' = [selectedVersions EXCEPT ![slot] = v]
    /\ executeBtnDisabled' = formInvalid(selectedChannel, selectedVersions')
    /\ UNCHANGED <<selectedChannel, availableVersions, availableUsers, loads>>
    /\ UNCHANGED <<topicNames, procVars, deltaVars, sessVars, execVars>>

\* click on the execute button: executeQuery and executeMultiVersionQuery
\* up to the fetches; with no version selected Promise.all([]) resolves at
\* once and the display and the finally block follow
ClickExecute ==
    /\ ~executeBtnDisabled
    /\ Len(runs) < MaxRuns
    /\ LET versions == activeVersionsOf(selectedVersions)
           run      == Len(runs) + 1
       IN  /\ resultsCache' = NoSlots
           /\ cacheOwner' = NoOwners
           /\ runs' = Append(runs,
                  [queryData |-> FormQuery,
                   dataset   |-> selectedChannel,
                   versions  |-> versions,
                   tasks     |-> [i \in 1..Len(versions) |-> "pending"],
                   settled   |-> versions = <<>>])
           /\ executeBtnDisabled' = (versions # <<>>)
           /\ shown' = IF versions = <<>>
                       THEN displayMultiVersionResults(run, NoSlots, NoOwners, selectedVersions)
                       ELSE shown
    /\ UNCHANGED <<topicNames, procVars, deltaVars, sessVars>>
    /\ UNCHANGED <<selectedChannel, selectedVersions, availableVersions, availableUsers, loads>>
    /\ UNCHANGED selects

\* the response of task i of run r arrives with a tree: the result is
\* stored in slot i of this.resultsCache as it is now; if that was the
\* run's last task, Promise.all resolves, the results are displayed and the
\* finally block enables the button
TaskResolves(r, i) ==
    /\ r \in 1..Len(runs) /\ i \in 1..Len(runs[r].tasks)
    /\ runs[r].tasks[i] = "pending"
    /\ runs[r].dataset # NoChannel
    /\ LET version  == runs[r].versions[i]
           treeData == ChannelTree(runs[r].dataset, version)
           tasks    == [runs[r].tasks EXCEPT ![i] = "done"]
           last     == ~runs[r].settled /\ \A j \in 1..Len(tasks) : tasks[j] = "done"
       IN  /\ topicNames' = topicNamesAfter(treeData, topicNames)
           /\ resultsCache' = [resultsCache EXCEPT ![i] =
                  executeQueryAgainstVersion(runs[r].queryData, runs[r].dataset,
                                             version, treeData, topicNames', NoOpenAI)]
           /\ cacheOwner' = [cacheOwner EXCEPT ![i] = r]
           /\ runs' = [runs EXCEPT ![r].tasks = tasks, ![r].settled = @ \/ last]
           /\ shown' = IF last
                       THEN displayMultiVersionResults(r, resultsCache', cacheOwner',
                                                       selectedVersions)
                       ELSE shown
           /\ executeBtnDisabled' = IF last THEN FALSE ELSE executeBtnDisabled
    /\ UNCHANGED <<procVars, deltaVars, sessVars>>
    /\ UNCHANGED <<selectedChannel, selectedVersions, availableVersions, availableUsers, loads>>
    /\ UNCHANGED selects

\* the request of task i of run r fails (no response, a non-success status,
\* an error payload, a response without a tree): Promise.all rejects on the
\* first failure, executeQuery shows the error and enables the button
TaskFails(r, i) ==
    /\ r \in 1..Len(runs) /\ i \in 1..Len(runs[r].tasks)
    /\ runs[r].tasks[i] = "pending"
    /\ runs' = [runs EXCEPT ![r].tasks[i] = "failed", ![r].settled = TRUE]
    /\ shown' = IF runs[r].settled THEN shown ELSE showError(r)
    /\ executeBtnDisabled' = IF runs[r].settled THEN executeBtnDisabled ELSE FALSE
    /\ UNCHANGED <<topicNames, procVars, deltaVars, sessVars, resultsCache, cacheOwner>>
    /\ UNCHANGED <<selectedChannel, selectedVersions, availableVersions, availableUsers, loads>>
    /\ UNCHANGED selects

NextExec ==
    \/ \E ch \in Channels : ChangeDataset(ch)
    \/ ResetDataset
    \/ \E k \in 1..MaxLoads : VersionsLoaded(k) \/ VersionsFailed(k)
    \/ \E k \in 1..MaxLoads : UsersLoaded(k) \/ UsersFailed(k)
    \/ \E slot \in Slots, v \in 0..2 : SelectVersion(slot, v)
    \/ ClickExecute
    \/ \E r \in 1..MaxRuns, i \in Slots : TaskResolves(r, i) \/ TaskFails(r, i)

SpecExec == InitExec /\ [][NextExec]_vars

\* ----------------------------------------------------- claims on SpecExec
displayed == shown # None /\ shown.kind = "results"

\* the run's fetches have all resolved in this step: Promise.all resolves
allResolved(r) ==
    /\ ~runs[r].settled
    /\ runs'[r].settled
    /\ \A j \in 1..Len(runs'[r].tasks) : runs'[r].tasks[j] = "done"

\* C3: when an execution displays its results, no version column it shows
\* holds a result written by an execution that started before it: a stale
\* result never overwrites a newer one
C3_NoStaleResult ==
    displayed => \A i \in Slots : shown.columns[i] # None => shown.owners[i] >= shown.by

\* C4: once all the fetches of an execution have resolved, slot i of
\* resultsCache holds a result whose version is the i-th version the
\* execution requested, whatever the order in which the fetches completed
C4_SlotHoldsRequestedVersion ==
    [][\A r \in 1..Len(runs) :
          allResolved(r) =>
              \A i \in 1..Len(runs[r].versions) :
                  /\ resultsCache'[i] # None
                  /\ resultsCache'[i].version = runs[r].versions[i]]_vars

\* the second half of C4: a result carries the version it was requested for
C4_ResultCarriesVersion ==
    [][\A r \in 1..Len(runs), i \in Slots :
          (i <= Len(runs[r].tasks) /\ runs[r].tasks[i] = "pending"
             /\ runs'[r].tasks[i] = "done")
          => resultsCache'[i].version = runs[r].versions[i]]_vars

\* every fetch of run r has resolved
completed(r) == \A j \in 1..Len(runs[r].tasks) : runs[r].tasks[j] = "done"

\* C14: results are rendered only after the pipelines of all the requested
\* versions have completed: every result a display shows belongs to an
\* execution whose fetches have all resolved, so that no part of the result
\* set of a failed or unfinished execution is rendered
C14_RenderedAfterAllCompleted ==
    displayed =>
        \A i \in Slots : shown.columns[i] # None => completed(shown.owners[i])

\* a fetch of run r fails in this step, as the first of the run to do so
firstFailure(r) ==
    /\ ~runs[r].settled
    /\ \E j \in 1..Len(runs[r].tasks) :
           runs[r].tasks[j] = "pending" /\ runs'[r].tasks[j] = "failed"

\* what holds of one execution taken by itself: it displays only when its
\* own fetches have all resolved, its first failure is shown as an error, and
\* a failure leaves the results stored so far as they are
C14_OwnExecution ==
    [][/\ (shown' # shown /\ shown' # None /\ shown'.kind = "results") =>
              \A j \in 1..Len(runs'[shown'.by].tasks) :
                  runs'[shown'.by].tasks[j] = "done"
       /\ \A r \in 1..Len(runs) :
              firstFailure(r) =>
                  /\ shown' = showError(r)
                  /\ resultsCache' = resultsCache]_vars

\* ------------------------------------------------------------ SpecEnhance
\* executeQueryAgainstVersion with a key in localStorage or without one, on
\* a tree and on a second tree, with every kind of answer from the
\* completions endpoint
TextMsg(u, t, text) ==
    [fromUserId |-> Num(u), fromUserName |-> UserName(u), topicId |-> t, text |-> text]

\* a response without messages, one with none, and conversations that
\* differ in their texts and in the second user's message
EnhTrees ==
    {[topics |-> SomeTopics],
     [messages |-> <<>>, topics |-> SomeTopics],
     [messages |-> <<TextMsg(1, 0, "gm")>>, topics |-> SomeTopics],
     [messages |-> <<TextMsg(1, 0, "seed phrase")>>, topics |-> SomeTopics],
     [messages |-> <<TextMsg(1, 0, "gm"), TextMsg(2, 1, "seed phrase")>>,
      topics |-> SomeTopics]}

TheDataset == "2148778849"

CustomQuery(question, users) ==
    [type |-> "custom_query", dataset |-> TheDataset, users |-> users,
     customQuestion |-> question]

EnhQueries ==
    {CustomQuery("Who is active?", <<>>),
     CustomQuery("Who is active?", <<Str(1)>>),
     CustomQuery("", <<>>)}

OpenAIKeys == {NoOpenAIKey, "sk-stored"}

completion(choices) ==
    [kind |-> "http", ok |-> TRUE, status |-> 200, json |-> TRUE,
     data |-> [choices |-> choices]]

\* what fetch and response.json() can give: no connection, a non-success
\* status, a body that is not JSON, JSON without choices, with no choice,
\* with a choice without message content, and completions
OpenAIResponses ==
    {[kind |-> "networkError"],
     [kind |-> "http", ok |-> FALSE, status |-> 429, json |-> TRUE,
      data |-> [error |-> "rate limit"]],
     [kind |-> "http", ok |-> TRUE, status |-> 200, json |-> FALSE],
     [kind |-> "http", ok |-> TRUE, status |-> 200, json |-> TRUE,
      data |-> [error |-> "overloaded"]],
     completion(<<>>),
     completion(<<[message |-> [role |-> "assistant"]]>>),
     completion(<<[message |-> [role |-> "assistant",
                                content |-> "  alice leads the discussion.\n"]]>>),
     completion(<<[message |-> [role |-> "assistant", content |-> ""]]>>)}

InitEnhance ==
    /\ theTree \in EnhTrees
    /\ twinTree \in EnhTrees
    /\ theQuery \in EnhQueries
    /\ openaiApiKey \in OpenAIKeys
    /\ enh = [tree |-> None, twin |-> None]
    /\ processed = <<>>
    /\ topicNames = <<>>
    /\ call = None /\ result = None /\ first = None
    /\ deltaIn = None /\ deltaOut = None
    /\ UiConstructed
    /\ NoComparison

\* executeQueryAgainstVersion(theQuery, TheVersion) when the tree endpoint
\* answers with treeData and the completions endpoint, if asked, with
\* response; enh keeps the local result, the request sent and the outcome
executionOf(treeData, response, local, attempted, names) ==
    [response  |-> response,
     local     |-> local,
     attempted |-> attempted,
     request   |-> IF attempted
                   THEN openAIRequest(local, theQuery, treeData, openaiApiKey)
                   ELSE None,
     outcome   |-> executeQueryAgainstVersion(
                       theQuery, TheDataset, TheVersion, treeData, names,
                       [key |-> openaiApiKey, response |-> response])]

ExecuteAgainstVersion(which, treeData, response) ==
    /\ topicNames' = topicNamesAfter(treeData, topicNames)
    /\ enh' = [enh EXCEPT ![which] =
           executionOf(treeData, response,
               processTreeLocally(treeData, theQuery, TheVersion, topicNames'),
               enhancementAttempted(theQuery, openaiApiKey),
               topicNames')]
    /\ UNCHANGED <<procVars, deltaVars, formVars, execVars>>
    /\ UNCHANGED <<openaiApiKey, twinTree, processed, cmpVars>>

ExecuteOnTree == \E resp \in OpenAIResponses : ExecuteAgainstVersion("tree", theTree, resp)

\* the second tree meets fewer kinds of answer: the request does not depend
\* on the answer
TwinResponses ==
    {r \in OpenAIResponses : r.kind = "networkError" \/ (r.ok /\ r.json /\ hasContent(r)
                                                          /\ r.data.choices[1].message.content # "")}

ExecuteOnTwin == \E resp \in TwinResponses : ExecuteAgainstVersion("twin", twinTree, resp)

NextEnhance == ExecuteOnTree \/ ExecuteOnTwin

SpecEnhance == InitEnhance /\ [][NextEnhance]_vars

\* -------------------------------------------------- claims on SpecEnhance
Executions == {"tree", "twin"}

\* the enhancement of execution w was attempted and failed: no connection, a
\* non-success status, a body that is not a completion with content, or a
\* local result without topic data
enhancementFailed(w) ==
    /\ enh[w] # None
    /\ enh[w].attempted
    /\ \/ ~Has(enh[w].local.data, "topics")
       \/ enh[w].response.kind = "networkError"
       \/ ~enh[w].response.ok
       \/ ~enh[w].response.json
       \/ ~hasContent(enh[w].response)

\* C11: whenever the enhancement fails, executeQueryAgainstVersion does not
\* reject: it returns the local result un-enhanced, with the local insights
\* unchanged, no aiSummary and metadata.enhanced false
C11_FallbackOnFailure ==
    \A w \in Executions :
        enhancementFailed(w) =>
            /\ ~Has(enh[w].outcome, "threw")
            /\ ~Has(enh[w].outcome, "aiSummary")
            /\ enh[w].outcome.insights = enh[w].local.insights
            /\ enh[w].outcome.summary = enh[w].local.summary
            /\ enh[w].outcome.data = enh[w].local.data
            /\ enh[w].outcome.metadata = enh[w].local.metadata
            /\ enh[w].outcome.metadata.enhanced = FALSE
            /\ enh[w].outcome.version = TheVersion

\* a request was sent, the status was 429, and the local result came back
C11_Witness ==
    /\ enhancementFailed("tree")
    /\ enh.tree.request # None
    /\ enh.tree.response.kind = "http" /\ ~enh.tree.response.ok
    /\ Len(enh.tree.local.insights) > 1
    /\ enh.tree.outcome.insights = enh.tree.local.insights

executed(w) == enh[w] # None

Range(f) == {f[x] : x \in DOMAIN f}

\* every text the request carries
requestTexts(request) ==
    LET prompt == request.user
    IN  {request.url, request.authorization, request.model, request.system,
         prompt.question, prompt.dataset, prompt.version, prompt.messages,
         prompt.topics, prompt.users}
        \cup UNION {Range(line) : line \in Range(prompt.topicAnalysis)}
        \cup {line[1] : line \in Range(prompt.userEngagement)}
        \cup UNION {Range(c) : c \in UNION {Range(line[2]) :
                                             line \in Range(prompt.userEngagement)}}
        \cup UNION {Range(insight) : insight \in Range(prompt.localInsights)}

\* the texts of the tree's messages and the titles of its named topics,
\* which the aggregation does not read
rawTexts(treeData) ==
    {m.text : m \in {x \in Range(treeData.messages) : Has(x, "text")}}
    \cup {treeData.topics[k].title :
             k \in {x \in DOMAIN treeData.topics :
                       Has(treeData.topics[x], "name") /\ Has(treeData.topics[x], "title")}}

treeOf(w) == IF w = "tree" THEN theTree ELSE twinTree

\* C12: what is sent to the completions endpoint is a function of the local
\* result and the query: two trees with the same local result under the
\* same query give the same request, and the request carries no message
\* text and no topic map of the tree
C12_RequestFromLocalResult ==
    /\ (executed("tree") /\ executed("twin") /\ enh.tree.local = enh.twin.local)
           => enh.tree.request = enh.twin.request
    /\ \A w \in Executions :
           (executed(w) /\ enh[w].request # None) =>
               /\ DOMAIN enh[w].request =
                      {"url", "method", "authorization", "model", "system", "user",
                       "max_tokens", "temperature"}
               /\ DOMAIN enh[w].request.user =
                      {"question", "dataset", "version", "messages", "topics", "users",
                       "topicAnalysis", "userEngagement", "localInsights"}
               /\ \A text \in requestTexts(enh[w].request), raw \in rawTexts(treeOf(w)) :
                      ~includes(text, raw)

\* two different trees with messages had the same local result, and a
\* request was sent for each
C12_Witness ==
    /\ executed("tree") /\ executed("twin")
    /\ theTree # twinTree
    /\ Has(theTree, "messages") /\ Has(twinTree, "messages")
    /\ Len(theTree.messages) # Len(twinTree.messages)
    /\ enh.tree.local = enh.twin.local
    /\ enh.tree.request # None
    /\ enh.tree.request = enh.twin.request
    /\ Len(enh.tree.request.user.topicAnalysis) > 0

\* the enhancement of execution w was attempted and the completions
\* endpoint answered with a completion
enhancementSucceeded(w) ==
    /\ executed(w)
    /\ enh[w].attempted
    /\ ~enhancementFailed(w)

contentOf(response) == response.data.choices[1].message.content

\* C13: when the enhancement succeeds, the result has an aiSummary string,
\* its insights are the labelled header block followed by every local
\* insight, unchanged and in order, and its aggregated data are those of the
\* local result
C13_EnhancedResult ==
    \A w \in Executions :
        enhancementSucceeded(w) =>
            LET out   == enh[w].outcome
                local == enh[w].local
            IN  /\ Has(out, "aiSummary")
                /\ out.aiSummary \in STRING
                /\ out.aiSummary = trim(contentOf(enh[w].response))
                /\ Len(out.insights) = Len(local.insights) + 2
                /\ out.insights[1] =
                       <<"AI-Enhanced Analysis for: \"{}\"", theQuery.customQuestion>>
                /\ out.insights[2] = <<"Local Analysis:">>
                /\ SubSeq(out.insights, 3, Len(out.insights)) = local.insights
                /\ out.data = local.data
                /\ out.summary = local.summary
                /\ out.metadata.enhanced

\* a completion padded with white space was received for a local result
\* with topics, and its trimmed text is the aiSummary
C13_Witness ==
    /\ enhancementSucceeded("tree")
    /\ Len(enh.tree.local.data.topics) > 0
    /\ Len(enh.tree.local.insights) > 5
    /\ contentOf(enh.tree.response) # trim(contentOf(enh.tree.response))
    /\ enh.tree.outcome.aiSummary = "alice leads the discussion."
    /\ Len(enh.tree.outcome.insights) = Len(enh.tree.local.insights) + 2

\* -------------------------------------- more claims on processTreeLocally
\* the texts interpolated into the result's insights
insightValues ==
    UNION {{result.insights[k][j] : j \in 2..Len(result.insights[k])} :
              k \in 1..Len(result.insights)}

\* C15: every average the pipeline produces is a finite number, 0 when its
\* denominator is zero: neither NaN nor Infinity appears in the result or
\* in an insight, also when topics exist and no message carries both a user
\* id and a user name
C15_FiniteAverages ==
    called =>
        /\ "NaN" \notin insightValues
        /\ "Infinity" \notin insightValues
        /\ Has(result.data, "userEngagement") =>
               /\ result.data.userEngagement.averageMessagesPerUser \in Nat
               /\ result.data.userEngagement.averageTopicsPerUser \in Nat
               /\ result.data.activeUsers = 0 =>
                      /\ result.data.userEngagement.averageMessagesPerUser = 0
                      /\ result.data.userEngagement.averageTopicsPerUser = 0

\* the averages of the data object, which are guarded
C15_DataAverages ==
    (called /\ Has(result.data, "userEngagement")) =>
        /\ result.data.userEngagement.averageMessagesPerUser \in Nat
        /\ result.data.userEngagement.averageTopicsPerUser \in Nat
        /\ result.data.activeUsers = 0 =>
               /\ result.data.userEngagement.averageMessagesPerUser = 0
               /\ result.data.userEngagement.averageTopicsPerUser = 0

\* -------------------------------------------------------------- SpecCache
\* one session: trees of several channels and versions are processed one
\* after the other, with resetUI in between; processed keeps the events
MaxSession == 3

ResetMark == [reset |-> TRUE]

\* trees whose topics objects name topic 0 differently, a tree without a
\* topics object, one with messages in topics that have a name, a title
\* only, neither and no entry, and a response without messages
CacheTrees ==
    {[messages |-> <<Msg(1, 0)>>, topics |-> SomeTopics],
     [messages |-> <<Msg(1, 0)>>, topics |-> OtherTopics],
     [messages |-> <<Msg(2, 1)>>, topics |-> (1 :> [name |-> "Delta"])],
     [messages |-> <<Msg(1, 0)>>],
     [messages |-> <<Msg(1, 0), Msg(2, 1), Msg(1, 2), Msg(2, 12)>>, topics |-> SomeTopics],
     [topics |-> OtherTopics]}

InitCache ==
    /\ topicNames = <<>>
    /\ processed = <<>>
    /\ openaiApiKey = NoOpenAIKey /\ twinTree = None /\ enh = None
    /\ theTree = None /\ theQuery = None /\ call = None /\ result = None /\ first = None
    /\ deltaIn = None /\ deltaOut = None
    /\ UiConstructed
    /\ NoComparison

\* processTreeLocally on the tree of one more response
ProcessInSession(t) ==
    /\ Len(processed) < MaxSession
    /\ topicNames' = topicNamesAfter(t, topicNames)
    /\ result' = processTreeLocally(t, FormQuery, TheVersion, topicNames')
    /\ call' = [tree |-> t, query |-> FormQuery]
    /\ processed' = Append(processed, t)
    /\ UNCHANGED <<theTree, theQuery, first, deltaVars, formVars, execVars>>
    /\ UNCHANGED <<openaiApiKey, twinTree, enh, cmpVars>>

\* resetUI: the form and the results go back to their initial values;
\* this.topicNames is not touched
ResetInSession ==
    /\ Len(processed) < MaxSession
    /\ selectedChannel' = NoChannel
    /\ selectedVersions' = [i \in Slots |-> NoVersion]
    /\ availableVersions' = <<>>
    /\ availableUsers' = <<>>
    /\ resultsCache' = NoSlots
    /\ cacheOwner' = NoOwners
    /\ executeBtnDisabled' = TRUE
    /\ shown' = None
    /\ processed' = Append(processed, ResetMark)
    /\ UNCHANGED <<topicNames, procVars, deltaVars, loads, selects, runs>>
    /\ UNCHANGED <<openaiApiKey, twinTree, enh, cmpVars>>

NextCache == (\E t \in CacheTrees : ProcessInSession(t)) \/ ResetInSession

SpecCache == InitCache /\ [][NextCache]_vars

\* ---------------------------------------------------- claims on SpecCache
\* the cache after the events of a session, from an empty cache
RECURSIVE cacheAfter(_, _)
cacheAfter(events, names) ==
    IF events = <<>> THEN names
    ELSE cacheAfter(Tail(events),
                    IF Head(events) = ResetMark THEN names
                    ELSE topicNamesAfter(Head(events), names))

\* the events of the session in every order
reorderings ==
    {[i \in 1..Len(processed) |-> processed[p[i]]] :
        p \in Permutations(1..Len(processed))}

\* C16: the cache converges whatever the order of the writes: its content
\* after a session is the same for every order in which the session's trees
\* could have been processed
C16_Convergent ==
    \A events \in reorderings : cacheAfter(events, <<>>) = topicNames

\* the other half of C16: an entry of the cache is never removed, by
\* processTreeLocally or by resetUI
C16_Additive ==
    [][DOMAIN topicNames \subseteq DOMAIN topicNames']_vars

\* ------------------------------------------------------------- SpecCustom
\* processTreeLocally for custom queries: conversations of three users, one
\* of them with a capitalised name, and questions for every analyzer
MaxCustomMsgs == 3

CustomMsgPool ==
    {Msg(1, 0), Msg(2, 1), Msg(1, -1),
     [fromUserId |-> Num(2), fromUserName |-> "bob", topicId |-> 0,
      timestamp |-> 86400],
     [fromUserId |-> Num(3), fromUserName |-> "Carol", topicId |-> 1],
     [fromUserName |-> "alice", topicId |-> 1]}

CustomTrees ==
    {[messages |-> s, topics |-> SomeTopics] :
        s \in UNION {[1..n -> CustomMsgPool] : n \in 0..MaxCustomMsgs}}

Questions ==
    {"How do @alice and @bob differ in topic preferences?",
     "How does alice differ in opinion?",
     "Do Carol and Bob DIFFER or disagree?",
     "Do they differ or disagree?",
     "Popular opinion on who may differ",
     "How do alice and bob differ?",
     "What is trending and who is most active?",
     "Which users are most engaged?",
     "What is the mood about recent issues?",
     "Any problem with the protocol at this time?",
     "Tell me about DeFi",
     "When did it start?",
     "What is going on?",
     ""}

InitCustom ==
    /\ theTree \in CustomTrees
    /\ theQuery \in {CustomQuery(q, <<>>) : q \in Questions}
    /\ topicNames = <<>>
    /\ call = None
    /\ result = None
    /\ first = None
    /\ deltaIn = None
    /\ deltaOut = None
    /\ UiConstructed
    /\ NoSession

\* processTreeLocally(theTree, theQuery)
ProcessQuestion == ProcessTree(theTree, theQuery)

NextCustom == ProcessQuestion

SpecCustom == InitCustom /\ [][NextCustom]_vars

\* ---------------------------------------------------- claims on SpecCustom
\* the lowercased question of the last call
askedQuestion == toLowerCase(call.query.customQuestion)

\* the last call was a custom query with a question on a tree with topics:
\* the keyword router ran
routed ==
    /\ called
    /\ call.query.type = "custom_query"
    /\ call.query.customQuestion # ""
    /\ Has(result.data, "topics") /\ Len(result.data.topics) > 0

\* the insights that follow the line quoting the question
routedInsights ==
    LET at == CHOOSE k \in 1..Len(result.insights) :
                  result.insights[k][1] = "Custom analysis for question: \"{}\""
    IN  SubSeq(result.insights, at + 1, Len(result.insights))

asksAboutDisagreement ==
    /\ includes(askedQuestion, "differ")
    /\ \/ includes(askedQuestion, "opinion")
       \/ includes(askedQuestion, "disagree")
       \/ includes(askedQuestion, "preferences")

\* the names of the known users, in the order the users were first met
knownUsernames ==
    LET users == extractUsers(processedMessages, 1,
                     [users |-> <<>>, userMessageCounts |-> <<>>,
                      userTopics |-> <<>>]).users
    IN  [j \in 1..Len(users) |-> users[j][2]]

\* the known usernames that occur in the question, whatever their case
matchedUsernames ==
    SelectSeq(knownUsernames, LAMBDA n : includes(askedQuestion, toLowerCase(n)))

\* the topic ids of the messages that carry the user name
topicIdsOf(username) ==
    {processedMessages[k].topicId :
        k \in {x \in 1..Len(processedMessages) :
                  /\ Has(processedMessages[x], "fromUserName")
                  /\ processedMessages[x].fromUserName = username
                  /\ hasTopic(processedMessages[x])}}

\* C17: when the question routes to the disagreement analysis, with fewer
\* than two known usernames in the question exactly one guidance string is
\* emitted, and with two or more, the first two of which share no topic id,
\* the only insight says that they have not participated in the same topic
\* discussions
C17_Disagreement ==
    (routed /\ asksAboutDisagreement) =>
        /\ Len(matchedUsernames) < 2 =>
               /\ Len(routedInsights) = 1
               /\ Len(routedInsights[1]) = 1
               /\ includes(routedInsights[1][1], "please specify user names")
        /\ (/\ Len(matchedUsernames) >= 2
            /\ topicIdsOf(matchedUsernames[1]) \cap topicIdsOf(matchedUsernames[2]) = {})
           => routedInsights =
                  << <<"Users {} and {} have not participated in the same topic discussions",
                       matchedUsernames[1], matchedUsernames[2]>> >>

\* two users, one written in another case in the question than in the
\* messages, were matched and had no topic in common
C17_Witness ==
    /\ routed /\ asksAboutDisagreement
    /\ Len(matchedUsernames) >= 2
    /\ "Carol" \in {matchedUsernames[1], matchedUsernames[2]}
    /\ topicIdsOf(matchedUsernames[1]) # {}
    /\ topicIdsOf(matchedUsernames[2]) # {}
    /\ topicIdsOf(matchedUsernames[1]) \cap topicIdsOf(matchedUsernames[2]) = {}
    /\ Len(routedInsights) = 1

\* ---------------------------------------------------- more claims on SpecDelta
\* the changed topics of the delta, when generateDeltaAnalysis returned
changedTopicsOut ==
    IF deltaOut = None \/ Has(deltaOut, "threw") THEN <<>> ELSE deltaOut.changedTopics

\* p is an integer nearest to 100 * num / den, for den > 0
isRounded(p, num, den) ==
    /\ 2 * den * p - den <= 200 * num
    /\ 200 * num <= 2 * den * p + den

\* C18: for every changed topic, change is the later message count minus
\* the earlier one, changePercent is round(change / earlier * 100), and the
\* earlier count, the divisor, is not 0
C18_ChangePercent ==
    \A j \in 1..Len(changedTopicsOut) :
        LET topic   == changedTopicsOut[j]
            earlier == countIn(deltaIn.firstTree, topic.id)
            later   == countIn(deltaIn.secondTree, topic.id)
        IN  /\ earlier # 0
            /\ topic.previousCount = earlier
            /\ topic.change = later - earlier
            /\ isRounded(topic.changePercent, later - earlier, earlier)

\* a topic went from 3 messages to 2: the change is -1 and the percentage,
\* -33, is not the exact quotient
C18_Witness ==
    \E j \in 1..Len(changedTopicsOut) :
        /\ changedTopicsOut[j].previousCount = 3
        /\ changedTopicsOut[j].change = -1
        /\ changedTopicsOut[j].changePercent = -33

\* ------------------------------------------- claims on the keyword router
\* the branches in their order, each with the keywords of its predicate; the
\* first one asks for "differ" as well, the last one for nothing
Branches ==
    << [analyzer |-> "analyzeUserDisagreements",
        keywords |-> {"opinion", "disagree", "preferences"}],
       [analyzer |-> "analyzeTrendingTopics", keywords |-> {"trending", "popular"}],
       [analyzer |-> "analyzeUserEngagement", keywords |-> {"engaged", "active"}],
       [analyzer |-> "analyzeSentimentPatterns", keywords |-> {"sentiment", "mood"}],
       [analyzer |-> "analyzeConcerns", keywords |-> {"concern", "issue", "problem"}],
       [analyzer |-> "analyzeProtocolDiscussions", keywords |-> {"defi", "protocol"}],
       [analyzer |-> "analyzeTemporalPatterns", keywords |-> {"when", "time", "recent"}],
       [analyzer |-> "analyzeGeneralQuestion", keywords |-> {}] >>

branchMatches(k) ==
    \/ k = Len(Branches)
    \/ /\ \E word \in Branches[k].keywords : includes(askedQuestion, word)
       /\ k = 1 => includes(askedQuestion, "differ")

firstMatching == CHOOSE k \in 1..Len(Branches) :
                     branchMatches(k) /\ \A j \in 1..(k - 1) : ~branchMatches(j)

\* what branch k emits for the last call
insightsOfBranch(k) ==
    analyze(Branches[k].analyzer, processedMessages, result.data.topics,
            extractUsers(processedMessages, 1,
                [users |-> <<>>, userMessageCounts |-> <<>>, userTopics |-> <<>>]).users,
            askedQuestion, topicNames)

\* C19: the router hands a question to exactly one branch, the first whose
\* predicate matches in the order disagreement, trending / popular, engaged
\* / active, sentiment / mood, concern / issue / problem, defi / protocol,
\* when / time / recent, default: the insights after the question line are
\* those of that branch and of no other
C19_FirstMatchingBranch ==
    routed => routedInsights = insightsOfBranch(firstMatching)

\* a question that matches the predicates of three branches was handled by
\* the earliest of them, whose insights differ from those of the two others
C19_Witness ==
    /\ routed
    /\ Cardinality({k \in 1..(Len(Branches) - 1) : branchMatches(k)}) = 3
    /\ routedInsights # <<>>
    /\ \A k \in 1..(Len(Branches) - 1) :
           (branchMatches(k) /\ k # firstMatching) =>
               insightsOfBranch(k) # routedInsights

\* ---------------------------------------------- claims on generateInsights
\* the base insights of the last call
baseOfCall ==
    baseInsights(processedMessages, result.data.topics,
                 extractUsers(processedMessages, 1,
                     [users |-> <<>>, userMessageCounts |-> <<>>, userTopics |-> <<>>]).users)

topicsExist == called /\ Has(result.data, "topics") /\ Len(result.data.topics) > 0

\* C20: when topics exist, for every query type other than custom_query
\* the insights are the base insights followed by exactly one fixed
\* sentence naming the analysis mode, whatever the number of selected users
C20_ModeSentence ==
    (topicsExist /\ call.query.type # "custom_query") =>
        /\ Len(result.insights) = Len(baseOfCall) + 1
        /\ SubSeq(result.insights, 1, Len(baseOfCall)) = baseOfCall

\* the second half of C20: a custom_query without a question gets the "no
\* question provided" notice after the base insights and nothing from the
\* router
C20_NoQuestion ==
    (topicsExist /\ call.query.type = "custom_query" /\ call.query.customQuestion = "") =>
        result.insights =
            baseOfCall \o << <<"Custom query selected but no question provided">> >>

\* what the code does for the other types: the sentence is appended for
\* user_analysis with one selected user and users_analysis with several, and
\* nothing is appended for channel_query
C20_AsCoded ==
    (topicsExist /\ call.query.type # "custom_query") =>
        LET appended == SubSeq(result.insights, Len(baseOfCall) + 1, Len(result.insights))
        IN  /\ SubSeq(result.insights, 1, Len(baseOfCall)) = baseOfCall
            /\ Len(appended) =
                   IF \/ call.query.type = "user_analysis" /\ Len(call.query.users) = 1
                      \/ call.query.type = "users_analysis" /\ Len(call.query.users) > 1
                   THEN 1 ELSE 0

\* -------------------------------------- claims on the contributor insight
\* the processed messages that count for a contributor: a user id and a
\* topic id other than -1
contributions(userId) ==
    {k \in 1..Len(processedMessages) :
        /\ Has(processedMessages[k], "fromUserId")
        /\ processedMessages[k].fromUserId = userId
        /\ hasTopic(processedMessages[k])}

contributorIds ==
    {u \in distinctUserIds : Truthy(u) /\ contributions(u) # {}}

totalOf(userId) == Cardinality(contributions(userId))

topicCountOf(userId) ==
    Cardinality({processedMessages[k].topicId : k \in contributions(userId)})

\* the name under which a contributor is listed in the result
listedNameOf(userId) ==
    LET topic == CHOOSE t \in Range(result.data.topics) :
                     \E c \in Range(t.contributors) : c.userId = ParseInt(userId)
        entry == CHOOSE c \in Range(topic.contributors) : c.userId = ParseInt(userId)
    IN  entry.username

contributorInsights ==
    SelectSeq(result.insights, LAMBDA insight :
        insight[1] = "Most active contributor: {} ({} messages across {} topics)")

\* C21: the "Most active contributor" insight names a user whose message
\* total over all topics is the largest of all contributors, with that
\* total and the number of distinct topics of the user
C21_MostActiveContributor ==
    (topicsExist /\ contributorInsights # <<>>) =>
        \E u \in contributorIds :
            /\ \A v \in contributorIds : totalOf(v) <= totalOf(u)
            /\ contributorInsights =
                   << <<"Most active contributor: {} ({} messages across {} topics)",
                        listedNameOf(u), ToString(totalOf(u)),
                        ToString(topicCountOf(u))>> >>

\* what the code names: the contributor listed first in the most discussed
\* topic, with the user's total and topic count
C21_AsCoded ==
    (topicsExist /\ contributorInsights # <<>>) =>
        \E u \in contributorIds :
            /\ ParseInt(u) = result.data.topics[1].contributors[1].userId
            /\ contributorInsights =
                   << <<"Most active contributor: {} ({} messages across {} topics)",
                        listedNameOf(u), ToString(totalOf(u)),
                        ToString(topicCountOf(u))>> >>

\* ----------------------------------------------------------- SpecDisagree
\* the disagreement analysis on conversations of two users in two topics,
\* given by the number of messages of each user in each topic
MaxPerTopic == 5

Rep(n, m) == [i \in 1..n |-> m]

DisagreeTrees ==
    {[messages |-> Rep(a0, Msg(1, 0)) \o Rep(b0, Msg(2, 0))
                   \o Rep(a1, Msg(1, 1)) \o Rep(b1, Msg(2, 1))] :
        a0 \in 0..MaxPerTopic, b0 \in 0..MaxPerTopic,
        a1 \in 0..MaxPerTopic, b1 \in 0..MaxPerTopic}
    \cup
    {[messages |-> Rep(b1, Msg(2, 1)) \o Rep(a1, Msg(1, 1))
                   \o Rep(b0, Msg(2, 0)) \o Rep(a0, Msg(1, 0))] :
        a0 \in 0..MaxPerTopic, b0 \in 0..MaxPerTopic,
        a1 \in 0..MaxPerTopic, b1 \in 0..MaxPerTopic}

InitDisagree ==
    /\ theTree \in DisagreeTrees
    /\ theQuery = CustomQuery("Do alice and bob differ in opinion?", <<>>)
    /\ topicNames = <<>>
    /\ call = None
    /\ result = None
    /\ first = None
    /\ deltaIn = None
    /\ deltaOut = None
    /\ UiConstructed
    /\ NoSession

SpecDisagree == InitDisagree /\ [][NextCustom]_vars

\* -------------------------------------------------- claims on SpecDisagree
\* the number of processed messages of the user name in the topic
messagesIn(username, topicId) ==
    Cardinality({k \in 1..Len(processedMessages) :
        /\ Has(processedMessages[k], "fromUserName")
        /\ processedMessages[k].fromUserName = username
        /\ hasTopic(processedMessages[k])
        /\ processedMessages[k].topicId = topicId})

differenceIn(topicId) ==
    absDiff(messagesIn(matchedUsernames[1], topicId),
            messagesIn(matchedUsernames[2], topicId))

commonTopicIds == topicIdsOf(matchedUsernames[1]) \cap topicIdsOf(matchedUsernames[2])

differenceInsights ==
    SelectSeq(routedInsights, LAMBDA insight :
        insight[1] = "Biggest engagement difference in \"{}\": {} ({} msgs) vs {} ({} msgs)")

twoShareTopics ==
    /\ routed /\ asksAboutDisagreement
    /\ Len(matchedUsernames) >= 2
    /\ commonTopicIds # {}

differenceInsightOf(topicId) ==
    <<"Biggest engagement difference in \"{}\": {} ({} msgs) vs {} ({} msgs)",
      getTopicName(topicNames, topicId),
      matchedUsernames[1], ToString(messagesIn(matchedUsernames[1], topicId)),
      matchedUsernames[2], ToString(messagesIn(matchedUsernames[2], topicId))>>

\* C22: when the two users share topics, the topic reported as the biggest
\* engagement difference is a common topic whose absolute difference of the
\* two users' message counts is the largest, and it is reported only when
\* that difference is greater than 2
C22_BiggestDifference ==
    twoShareTopics =>
        LET largest == CHOOSE d \in {differenceIn(t) : t \in commonTopicIds} :
                           \A t \in commonTopicIds : differenceIn(t) <= d
        IN  IF largest > 2
            THEN \E t \in commonTopicIds :
                     /\ differenceIn(t) = largest
                     /\ differenceInsights = <<differenceInsightOf(t)>>
            ELSE differenceInsights = <<>>

\* what the code reports: the first common topic, in the order in which the
\* first user met the topics, whose difference is greater than 2
C22_AsCoded ==
    twoShareTopics =>
        \/ /\ \A t \in commonTopicIds : differenceIn(t) <= 2
           /\ differenceInsights = <<>>
        \/ \E t \in commonTopicIds :
               /\ differenceIn(t) > 2
               /\ differenceInsights = <<differenceInsightOf(t)>>

\* ------------------------------------------------------------- SpecFilter
\* processTreeLocally with a user filter on messages that carry the user id
\* as a number, as a string, or not at all
MaxFilterMsgs == 3
MaxVersion == 3
MaxSwitches == 2

FilterMsgPool ==
    {Msg(1, 0), Msg(2, 1),
     [fromUserId |-> Str(1), fromUserName |-> "alice", topicId |-> 1],
     [topicId |-> 0]}

FilterTrees ==
    {[messages |-> s] : s \in UNION {[1..n -> FilterMsgPool] : n \in 0..MaxFilterMsgs}}

FilterQueries ==
    {Query("channel_query", <<>>),
     Query("channel_query", <<Str(1)>>),
     Query("channel_query", <<Str(2), Str(1)>>)}

InitFilter ==
    /\ theTree \in FilterTrees
    /\ theQuery \in FilterQueries
    /\ topicNames = <<>>
    /\ call = None
    /\ result = None
    /\ first = None
    /\ deltaIn = None
    /\ deltaOut = None
    /\ UiConstructed
    /\ NoSession

SpecFilter == InitFilter /\ [][NextCustom]_vars

\* ---------------------------------------------------- claims on SpecFilter
\* the integers of the filter
filterIds == {ParseInt(call.query.users[i]) : i \in 1..Len(call.query.users)}

\* the messages to keep: all of them without a filter, else those whose
\* user id, as an integer, is in the filter, in their order
messagesToKeep ==
    IF call.query.users = <<>> THEN call.tree.messages
    ELSE SelectSeq(call.tree.messages, LAMBDA m :
             Has(m, "fromUserId") /\ ParseInt(m.fromUserId) \in filterIds)

\* C23: with a user filter processTreeLocally keeps exactly the messages
\* whose fromUserId, coerced to integer, is in the filter, a string id
\* included, in their original order, and without a filter all messages: the
\* result is that of the kept messages processed without a filter
C23_FilterKeeps ==
    (called /\ ~noMessages(call.tree)) =>
        LET kept == processTreeLocally([messages |-> messagesToKeep],
                                       [call.query EXCEPT !.users = <<>>],
                                       TheVersion, topicNames)
        IN  /\ result.data = kept.data
            /\ result.insights = kept.insights

\* what the code keeps: the messages whose fromUserId is a number of the
\* filter
C23_AsCoded ==
    (called /\ ~noMessages(call.tree)) =>
        LET numbered == IF call.query.users = <<>> THEN call.tree.messages
                        ELSE SelectSeq(call.tree.messages, LAMBDA m :
                                 /\ Has(m, "fromUserId")
                                 /\ m.fromUserId[1] = "number"
                                 /\ m.fromUserId[2] \in filterIds)
            kept == processTreeLocally([messages |-> numbered],
                                       [call.query EXCEPT !.users = <<>>],
                                       TheVersion, topicNames)
        IN  /\ result.data = kept.data
            /\ result.insights = kept.insights

\* ------------------------------------------------ claims on the name cache
\* the Topic Mapping list of the README
TopicMapping ==
    <<"General Discussion", "Technical Implementation", "Community Governance",
      "Market Analysis", "Product Features", "DeFi Protocols", "Security & Audits",
      "Token Economics", "Development Updates", "User Support">>

\* the trees of the session whose topics objects were read
treesRead ==
    {t \in Range(processed) : t # ResetMark /\ ~noMessages(t) /\ Has(t, "topics")}

hasLabel(entry) == Has(entry, "name") \/ Has(entry, "title")

labelOf(entry) == IF Has(entry, "name") THEN entry.name ELSE entry.title

\* the name a topic id resolves to with the cache as it is
resolved(id) ==
    IF id \in DOMAIN topicNames THEN topicNames[id]
    ELSE IF id \in 0..9 THEN TopicMapping[id + 1]
    ELSE "Topic " \o ToString(id)

\* the last event of the session is a tree whose topics object was read
lastRead ==
    /\ processed # <<>>
    /\ processed[Len(processed)] \in treesRead

MultiTrees ==
    {NullTree,
     [messages |-> <<>>],
     [messages |-> <<Msg(1, 0)>>],
     [messages |-> <<Msg(1, 0), Msg(2, 1)>>],
     [messages |-> <<Msg(1, 0), Msg(2, 1), Msg(1, 2)>>]}

\* the orders in which two or three distinct versions can be handed over
VersionOrders ==
    {s \in UNION {[1..n -> 1..MaxVersion] : n \in 2..MaxVersion} :
        \A i, j \in DOMAIN s : i # j => s[i] # s[j]}

InitMulti ==
    /\ \E vs \in VersionOrders : \E ts \in [1..Len(vs) -> MultiTrees] :
           deltaIn = [versions |-> vs,
                      trees    |-> ts,
                      results  |-> [j \in 1..Len(vs) |->
                          executeQueryAgainstVersion(FormQuery, TheDataset, vs[j], ts[j],
                              topicNamesAfter(ts[j], <<>>), NoOpenAI)]]
    /\ deltaOut = None
    /\ topicNames = <<>>
    /\ theTree = None /\ theQuery = None /\ call = None /\ result = None /\ first = None
    /\ UiConstructed
    /\ NoSession

GenerateMultiVersionDelta ==
    /\ deltaOut = None
    /\ deltaOut' = generateMultiVersionDelta(deltaIn.results)
    /\ UNCHANGED <<topicNames, procVars, deltaIn, formVars, execVars, sessVars>>

NextMulti == GenerateMultiVersionDelta

SpecMulti == InitMulti /\ [][NextMulti]_vars

\* ------------------------------------------ claims on the multi-version delta
\* the position in the input of the version with the lowest and with the
\* highest identifier
lowest == CHOOSE j \in DOMAIN deltaIn.versions :
              \A k \in DOMAIN deltaIn.versions : deltaIn.versions[j] <= deltaIn.versions[k]

highest == CHOOSE j \in DOMAIN deltaIn.versions :
               \A k \in DOMAIN deltaIn.versions : deltaIn.versions[j] >= deltaIn.versions[k]

messagesOfTree(treeData) == IF noMessages(treeData) THEN <<>> ELSE treeData.messages

\* the three counts of a version, read off its tree
countOf(treeData, f) ==
    LET ms == messagesOfTree(treeData)
    IN  CASE f = "messageCount" -> Len(ms)
          [] f = "topicCount"   -> Cardinality({ms[k].topicId : k \in 1..Len(ms)})
          [] f = "activeUsers"  -> Cardinality({ms[k].fromUserId : k \in 1..Len(ms)})

differenceOf(f) ==
    Num(countOf(deltaIn.trees[highest], f) - countOf(deltaIn.trees[lowest], f))

ascending(vs) == \A i, j \in DOMAIN vs : i < j => vs[i] < vs[j]

multiDeltaGenerated == deltaOut # None /\ Has(deltaOut, "versions")

versionsListed ==
    /\ ascending(deltaOut.versions)
    /\ Range(deltaOut.versions) = Range(deltaIn.versions)
    /\ Len(deltaOut.versions) = Len(deltaIn.versions)

\* C25: the versions are listed in ascending order of version identifier
\* whatever the order of the input, and the evolution summary is the
\* difference of messageCount, topicCount and activeUsers between the
\* highest and the lowest version only, each a number also when one of the
\* versions is a no-data result
C25_EvolutionSummary ==
    multiDeltaGenerated =>
        /\ versionsListed
        /\ deltaOut.messageDiff = differenceOf("messageCount")
        /\ deltaOut.topicDiff = differenceOf("topicCount")
        /\ deltaOut.userDiff = differenceOf("activeUsers")

\* what the code does: the order is as stated; the differences are as stated
\* when the highest and the lowest version both have a message map, and
\* NaN otherwise
C25_AsCoded ==
    multiDeltaGenerated =>
        /\ versionsListed
        /\ IF noMessages(deltaIn.trees[highest]) \/ noMessages(deltaIn.trees[lowest])
           THEN /\ deltaOut.messageDiff = NaN
                /\ deltaOut.topicDiff = NaN
                /\ deltaOut.userDiff = NaN
           ELSE /\ deltaOut.messageDiff = differenceOf("messageCount")
                /\ deltaOut.topicDiff = differenceOf("topicCount")
                /\ deltaOut.userDiff = differenceOf("activeUsers")

\* ------------------------------------------------------------ SpecCompare
\* displayQueryResults: view is the page before the call; an element that
\* the call does not write keeps what it showed
displayQueryResults(view, firstResults, secondResults, enabled) ==
    IF enabled
    THEN LET withA == IF firstResults # None
                      THEN [view EXCEPT !.versionATitle = firstResults.version,
                                        !.A = firstResults]
                      ELSE view
             withB == IF secondResults # None
                      THEN [withA EXCEPT !.versionBTitle = secondResults.version,
                                         !.B = secondResults]
                      ELSE withA
             delta == IF firstResults # None /\ secondResults # None
                      THEN generateDeltaAnalysis(firstResults, secondResults)
                      ELSE None
         IN  IF delta = None \/ Has(delta, "threw")
             THEN [withB EXCEPT !.layout = "comparison"]
             ELSE [withB EXCEPT !.layout = "comparison", !.delta = delta]
    ELSE IF firstResults # None
         THEN [view EXCEPT !.layout = "single", !.single = firstResults]
         ELSE [view EXCEPT !.layout = "single"]

\* the page before any result is displayed
NoView ==
    [layout |-> "hidden", versionATitle |-> NoVersion, A |-> None,
     versionBTitle |-> NoVersion, B |-> None, delta |-> None, single |-> None]

\* the trees a version fetch can answer with
CompareTrees ==
    {NullTree,
     [messages |-> <<Msg(1, 0)>>],
     [messages |-> <<Msg(1, 0), Msg(2, 1)>>],
     [messages |-> <<Msg(1, 0), Msg(1, 0), Msg(2, 2)>>]}

\* script.js assigns comparisonEnabled, firstVersion and secondVersion
\* nowhere: both values of the flag and every pair of versions are taken
InitCompare ==
    /\ comparisonEnabled \in BOOLEAN
    /\ firstVersion \in {EarlierVersion, LaterVersion}
    /\ secondVersion \in {EarlierVersion, LaterVersion}
    /\ firstResultsTemp = None
    /\ fetches = None
    /\ comparisonView = NoView
    /\ openaiApiKey = NoOpenAIKey /\ twinTree = None /\ enh = None /\ processed = <<>>
    /\ topicNames = <<>>
    /\ theTree = None /\ theQuery = None /\ call = None /\ result = None /\ first = None
    /\ deltaIn = None /\ deltaOut = None
    /\ UiConstructed

\* executeComparisonQuery up to its two fetches: the earlier version is A
ExecuteComparisonQuery ==
    /\ fetches = None
    /\ firstResultsTemp' = None
    /\ LET swap == firstVersion > secondVersion
           versionA == IF swap THEN secondVersion ELSE firstVersion
           versionB == IF swap THEN firstVersion ELSE secondVersion
       IN  fetches' = [A |-> [version |-> versionA, state |-> "pending", results |-> None],
                       B |-> [version |-> versionB, state |-> "pending", results |-> None]]
    /\ UNCHANGED <<comparisonEnabled, firstVersion, secondVersion, comparisonView>>
    /\ UNCHANGED <<openaiApiKey, twinTree, enh, processed>>
    /\ UNCHANGED <<topicNames, procVars, deltaVars, formVars, execVars>>

\* what executeQueryAgainstVersion resolves to for a fetch that answered
\* with treeData
fetched(version, treeData) ==
    executeQueryAgainstVersion(FormQuery, TheDataset, version, treeData,
                               topicNamesAfter(treeData, topicNames), NoOpenAI)

\* the continuation of version A's promise: the result is kept in
\* firstResultsTemp and displayed alone
thenOfFirst(results) ==
    /\ firstResultsTemp' = results
    /\ comparisonView' =
           displayQueryResults(comparisonView, results, None, comparisonEnabled)
    /\ fetches' = [fetches EXCEPT !.A.state = "resolved", !.A.results = results]

\* the fetch of version A resolves
FirstResolves(treeData) ==
    /\ fetches # None /\ fetches.A.state = "pending"
    /\ thenOfFirst(fetched(fetches.A.version, treeData))
    /\ topicNames' = topicNamesAfter(treeData, topicNames)
    /\ UNCHANGED <<comparisonEnabled, firstVersion, secondVersion>>
    /\ UNCHANGED <<openaiApiKey, twinTree, enh, processed>>
    /\ UNCHANGED <<procVars, deltaVars, formVars, execVars>>

\* the continuation of version B's promise: the result is displayed
\* together with firstResultsTemp as it is now; a throw of
\* generateDeltaAnalysis rejects the promise after the columns were written
thenOfSecond(results) ==
    LET firstReady == firstResultsTemp
        view == displayQueryResults(comparisonView, firstReady, results,
                                    comparisonEnabled)
        threw == /\ comparisonEnabled /\ firstReady # None
                 /\ ~Has(results.data, "topics") \/ ~Has(firstReady.data, "topics")
    IN  /\ comparisonView' = view
        /\ fetches' = [fetches EXCEPT
               !.B.state = IF threw THEN "rejected" ELSE "resolved",
               !.B.results = results]

\* the fetch of version B resolves
SecondResolves(treeData) ==
    /\ fetches # None /\ fetches.B.state = "pending"
    /\ thenOfSecond(fetched(fetches.B.version, treeData))
    /\ topicNames' = topicNamesAfter(treeData, topicNames)
    /\ UNCHANGED <<comparisonEnabled, firstVersion, secondVersion, firstResultsTemp>>
    /\ UNCHANGED <<openaiApiKey, twinTree, enh, processed>>
    /\ UNCHANGED <<procVars, deltaVars, formVars, execVars>>

\* apiCall throws for one of the fetches: its promise rejects and its
\* continuation does not run
FetchRejects(which) ==
    /\ fetches # None /\ fetches[which].state = "pending"
    /\ fetches' = [fetches EXCEPT ![which].state = "rejected"]
    /\ UNCHANGED <<comparisonEnabled, firstVersion, secondVersion, firstResultsTemp,
                   comparisonView>>
    /\ UNCHANGED <<openaiApiKey, twinTree, enh, processed>>
    /\ UNCHANGED <<topicNames, procVars, deltaVars, formVars, execVars>>

NextCompare ==
    \/ ExecuteComparisonQuery
    \/ \E t \in CompareTrees : FirstResolves(t)
    \/ \E t \in CompareTrees : SecondResolves(t)
    \/ \E which \in {"A", "B"} : FetchRejects(which)

SpecCompare == InitCompare /\ [][NextCompare]_vars

\* -------------------------------------------- claims on the comparison query
bothResolved ==
    /\ fetches # None
    /\ fetches.A.state = "resolved" /\ fetches.B.state = "resolved"

\* C26: in executeComparisonQuery, for both orders in which the two version
\* fetches can resolve, once both have resolved the delta analysis between
\* the earlier and the later version has been generated and both versions'
\* results are displayed, each in its own column
C26_ComparisonComplete ==
    bothResolved =>
        /\ comparisonView.layout = "comparison"
        /\ comparisonView.A = fetches.A.results
        /\ comparisonView.B = fetches.B.results
        /\ comparisonView.delta =
               generateDeltaAnalysis(fetches.A.results, fetches.B.results)

\* what the code does with comparison mode on: both columns are filled in
\* either order; the delta analysis is there when version A resolved first
C26_AsCoded ==
    (bothResolved /\ comparisonEnabled) =>
        /\ comparisonView.layout = "comparison"
        /\ comparisonView.A = fetches.A.results
        /\ comparisonView.B = fetches.B.results
        /\ comparisonView.delta \in
               {None, generateDeltaAnalysis(fetches.A.results, fetches.B.results)}

\* with comparison mode on, version B resolved before version A and no
\* delta analysis was generated
C26_LaterFirst ==
    ~(/\ bothResolved /\ comparisonEnabled
      /\ comparisonView.A # None /\ comparisonView.B # None
      /\ comparisonView.delta = None)

\* ---------------------------------------------- claims on the version columns
\* C27: whenever displayMultiVersionResults shows a version column, the
\* version number in the column title equals the version field of the
\* result rendered in that column, for every combination of filled and
\* empty version slots and for any change of the version selection made
\* while the query was in flight
C27_TitleMatchesResult ==
    displayed =>
        \A i \in Slots :
            shown.columns[i] # None =>
                shown.columns[i].title = shown.columns[i].results.version

\* what the code does: the title of column i is the version selected in
\* slot i when the results are displayed, the result is the one of the i-th
\* version that was selected when the query started; the two agree when the
\* selection is as it was at the start, its filled slots come first and no
\* other execution wrote a slot
C27_AsCoded ==
    [][(shown' # shown /\ shown' # None /\ shown'.kind = "results") =>
          LET run == runs'[shown'.by]
          IN  (/\ \A i \in 1..Len(run.versions) : selectedVersions'[i] = run.versions[i]
               /\ \A i \in Slots : i > Len(run.versions) => selectedVersions'[i] = NoVersion
               /\ \A i \in Slots : shown'.columns[i] # None => shown'.owners[i] = shown'.by)
              => \A i \in Slots :
                     shown'.columns[i] # None =>
                         shown'.columns[i].title = shown'.columns[i].results.version]_vars
\* ------------------------------------------------------------- SpecSwitch
\* the form when the user moves between two datasets, resets the form and
\* changes the version selects while loads are in flight; the service
\* answers every request that names a channel
SwitchDataset(ch) == Len(loads) < MaxSwitches /\ handleDatasetChange(ch)

NextSwitch ==
    \/ \E ch \in Datasets : SwitchDataset(ch)
    \/ ResetDataset
    \/ \E k \in 1..MaxSwitches : VersionsLoaded(k)
    \/ \E k \in 1..MaxSwitches : UsersLoaded(k)
    \/ \E k \in 1..Len(loads) : loads[k].channel = NoChannel /\ UsersFailed(k)
    \/ \E slot \in Slots, v \in 0..MaxVersion : SelectVersion(slot, v)

SpecSwitch == InitExec /\ [][NextSwitch]_vars

\* ------------------------------------------------ claims on dataset changes
\* the versions the service has for the channel selected now
versionsOfSelected ==
    IF selectedChannel = NoChannel THEN {} ELSE Range(ChannelVersions(selectedChannel))

\* C28: whenever a query can be executed, every non-null selected version is
\* one of the available versions of the currently selected channel,
\* including after the dataset is changed from one channel to another
C28_SelectedAreAvailable ==
    ~executeBtnDisabled =>
        \A i \in Slots :
            selectedVersions[i] # NoVersion => selectedVersions[i] \in versionsOfSelected

\* the same against the list the form holds, this.availableVersions
C28_SelectedAreListed ==
    ~executeBtnDisabled =>
        \A i \in Slots :
            selectedVersions[i] # NoVersion => selectedVersions[i] \in Range(availableVersions)

\* what the code does: the version of slot 1 is one of the versions loaded
\* last; slots 2 and 3 keep what was selected for an earlier dataset
C28_AsCoded ==
    (~executeBtnDisabled /\ selectedVersions[1] # NoVersion) =>
        selectedVersions[1] \in Range(availableVersions)


\* every load that was started has run to its end
allLoadsCompleted == loads # <<>> /\ \A k \in 1..Len(loads) : loads[k].stage = "done"

latestOf(versions) == IF versions = <<>> THEN NoVersion ELSE versions[Len(versions)]

\* C29: if the dataset is changed again, or reset, while a version or user
\* load of a previously selected dataset is still in flight, then once all
\* loads have completed availableVersions, the auto-selected version 1 and
\* availableUsers are those of the currently selected channel, never those
\* of the earlier one
C29_LoadsOfCurrentChannel ==
    (allLoadsCompleted /\ selects = 0) =>
        IF selectedChannel = NoChannel
        THEN /\ availableVersions = <<>>
             /\ selectedVersions[1] = NoVersion
             /\ availableUsers = <<>>
        ELSE /\ availableVersions = ChannelVersions(selectedChannel)
             /\ selectedVersions[1] = latestOf(ChannelVersions(selectedChannel))
             /\ availableUsers = ChannelUsers(selectedChannel)

\* what the code does: the versions and the version selected in slot 1 are
\* those of the load whose response came last, whichever channel it was
\* started for; the users are those of a channel that was selected when a
\* user request was sent
C29_AsCoded ==
    (allLoadsCompleted /\ selects = 0) =>
        /\ selectedVersions[1] = latestOf(availableVersions)
        /\ \/ availableVersions = <<>>
           \/ \E ch \in Datasets : availableVersions = ChannelVersions(ch)
        /\ \/ availableUsers = <<>>
           \/ \E ch \in Datasets : availableUsers = ChannelUsers(ch)



\* ----------------------------------------------------------- SpecExecLive
\* SpecExec with every fetch of a query settling in the end: a pending
\* request fails or is answered
SettleTask(r, i) == TaskFails(r, i) \/ TaskResolves(r, i)

SpecExecLive ==
    /\ SpecExec
    /\ \A r \in 1..MaxRuns, i \in Slots : WF_vars(SettleTask(r, i))

\* ------------------------------------------------ claims on executeQuery
\* executeQuery call r has started and has not reached the end of its
\* finally block
running(r) == r \in 1..Len(runs) /\ ~runs[r].settled

ended(r) == r \in 1..Len(runs) /\ runs[r].settled

\* the step is no event of a form input: no select changed and no dataset
\* was chosen or reset
noInputChange ==
    /\ selects' = selects
    /\ Len(loads') = Len(loads)
    /\ selectedChannel' = selectedChannel
    /\ selectedVersions' = selectedVersions \/ \E k \in 1..Len(loads) : loads'[k] # loads[k]

\* C30: every executeQuery ends with the execute button enabled again and
\* the loader hidden, and while a query is running and no form input
\* changes, the execute button stays disabled; this is the part on the
\* running query: a step that is no input event and leaves a query running
\* leaves a disabled button disabled
C30_StaysDisabled ==
    [][(/\ \E r \in 1..Len(runs) : running(r) /\ ~ended(r)'
        /\ executeBtnDisabled
        /\ noInputChange)
       => executeBtnDisabled']_vars

\* the part of C30 on the end: every executeQuery eventually ends, whether
\* all version pipelines succeed or any of them fails, provided every fetch
\* eventually settles
C30_EventuallyEnds ==
    \A r \in 1..MaxRuns : (r <= Len(runs)) ~> ended(r)

\* the step that ends an executeQuery leaves the execute button enabled
C30_EndsEnabled ==
    [][\A r \in 1..Len(runs) : (running(r) /\ ended(r)') => ~executeBtnDisabled']_vars

====
